---------------------------- MODULE Spec2Model ----------------------------
(***************************************************************************)
(* Secure 2FA: the main page (PIN gate, account list, backup import and   *)
(* export, drag and drop), the PinPad, the PIN settings modal, and the    *)
(* vault commands they invoke.                                            *)
(*                                                                         *)
(* The page, the PinPad and the settings modal are translated from the    *)
(* Svelte sources.  The vault commands (has_pin, set_pin, verify_pin,     *)
(* remove_pin, get_accounts, ...) are implemented by the Rust backend,    *)
(* which is not part of the sources; they are modelled from the           *)
(* specification document (sections 4 and 6) and are marked as such.      *)
(*                                                                         *)
(* Every `await invoke(...)` splits a handler in two: the part up to the  *)
(* await sends a request, the backend executes it, and the rest of the    *)
(* handler runs when the response arrives.  Requests in flight are        *)
(* executed and answered in any order.                                    *)
(***************************************************************************)
EXTENDS Integers, Sequences, FiniteSets

\* ------------------------------------------------------------------ bounds
\* Pending delayed-submit timers (setTimeout(handleSubmit, 200)) per PinPad.
MaxTimers == 1
\* Requests (invoke / dialog calls) the page's handlers await at the same
\* time.
MaxInflight == 1
\* Requests a page instance that is gone has left with the backend.
MaxOrphans == 1
\* Rows the accounts table ever receives (AUTOINCREMENT ids 1..MaxAccounts).
MaxAccounts == 2
\* The wall clock runs from a start time up to MaxNow (seconds).
MaxNow == 61
\* get_current_otp requests of one card in flight at the same time.
MaxFetches == 2
\* Requests of one card counted per 30-second step.
MaxIssued == 2
\* Requests the account list's handlers (add, edit, delete, import) await
\* at the same time where their overlap is examined.
MaxWriters == 2

\* ------------------------------------------------------- program constants
MAX_PIN_LENGTH == 4
MIN_PIN_LENGTH == 4
\* The TOTP period in seconds (`now / 30`, `now % 30`).
Period == 30

\* The PINs the user enters, digit by digit: one PIN and a second one that
\* differs from it.  The PinPad treats all digits alike, so two PINs cover
\* "the same PIN again" and "a different PIN".
Pins == {<<1, 1, 1, 1>>, <<1, 1, 1, 2>>}
Digits == {1, 2}
\* The salts the backend's random generator produces.
Salts == {1, 2}

\* ------------------------------------------------------------------- text
\* A text is the sequence of its characters.
Whitespace == {" ", "\t"}
LowerCase == <<"a", "b", "c", "d", "e", "f", "g", "h", "i", "j", "k", "l", "m",
               "n", "o", "p", "q", "r", "s", "t", "u", "v", "w", "x", "y", "z">>
UpperCase == <<"A", "B", "C", "D", "E", "F", "G", "H", "I", "J", "K", "L", "M",
               "N", "O", "P", "Q", "R", "S", "T", "U", "V", "W", "X", "Y", "Z">>

\* String.prototype.trim().
RECURSIVE trim(_)
trim(s) ==
    IF s = <<>> THEN s
    ELSE IF Head(s) \in Whitespace THEN trim(Tail(s))
    ELSE IF s[Len(s)] \in Whitespace THEN trim(SubSeq(s, 1, Len(s) - 1))
    ELSE s

\* A faulty replace: only the whitespace at the ends is removed.
RemoveWhitespaceAtEnds(s) == trim(s)

\* replace(/\s+/g, "").
RemoveWhitespace(s) == SelectSeq(s, LAMBDA ch : ch \notin Whitespace)

\* toUpperCase() of one character.
UpperChar(ch) ==
    IF \E j \in 1..Len(LowerCase) : LowerCase[j] = ch
    THEN UpperCase[CHOOSE j \in 1..Len(LowerCase) : LowerCase[j] = ch]
    ELSE ch

\* toUpperCase().
toUpperCase(s) == [j \in 1..Len(s) |-> UpperChar(s[j])]

\* The texts the model's accounts are made of.
GitHub == <<"G", "H">>
dev == <<"d">>
ops == <<"o">>
Jbsw == <<"J", "B", "S", "W">>

\* The (issuer, account_name) pairs and the base32 secrets the user enters.
Labels == {<<GitHub, dev>>, <<GitHub, ops>>}
Secrets == {Jbsw}
\* The files the user drops on the page: the backup file export_backup
\* wrote, a JSON array of ForeignLength records from elsewhere, and a .json
\* file whose text is not JSON.
Files == {"backup", "foreign", "broken"}
ForeignLength == 1
MaxListNow == 30
MaxListInflight == 2
\* The wall-clock times (seconds) at which the account list appears: the
\* first second of a 30-second step, and two seconds before the next step.
StartTimes == {0, 28}

IsPrefix(s, t) == Len(s) <= Len(t) /\ SubSeq(t, 1, Len(s)) = s

\* The user is typing one of Pins.
Typing(s) == \E t \in Pins : IsPrefix(s, t)

\* PinPad error messages (errorMsg), named by what they say.
NoMsg == "null"
MsgTooShort == "PIN must be 4 digits"
MsgConfirmMismatch == "entered PINs do not match"
MsgPinMismatch == "PIN does not match"
MsgError == "error"
MsgSetupFailed == "setup failed"
MsgCurrentPinMismatch == "current PIN does not match"

VARIABLES
    \* ---- persisted by the backend (survive a page reload and a restart)
    verifier,       \* PinVerifier: [set, salt, hash]
    masterKey,      \* MasterKeyMaterial
    store,          \* rows of the accounts table
    nextId,         \* AUTOINCREMENT counter of the accounts table
    disk,           \* the backup file on disk: [exists, doc]
    \* ---- +page state (reset by a reload)
    pinState,       \* "loading" | "needs_setup" | "locked" | "unlocked"
    accounts,       \* the account list the page holds
    isAddModalOpen,
    isPinSettingsOpen,
    loaded,         \* the last "N accounts loaded" toast: [shown, n, by, imported]
    \* ---- PinSettingsModal state
    settingsMode,   \* "select" | "setup" | "remove"
    hasPin,
    closeTimers,    \* pending setTimeout(() => mode = "select", 300)
    \* ---- PinPad instances: pads["page"], pads["modal"]
    pads,
    \* ---- requests in flight
    inflight,
    \* ---- history (not program state)
    hist,           \* of the backend: [lastSetPin, sets, pinRemoved]
    session,        \* of this page load: [pinAtLaunch, verified, afterRemove]
    \* ---- the wall clock and an AccountCard
    now,            \* Math.floor(Date.now() / 1000)
    card,           \* the card of one account
    \* ---- AddAccountModal, the application window, the clipboard
    form,           \* the modal's variables (showModal is isAddModalOpen)
    win,            \* the Tauri window
    clipboard,      \* what navigator.clipboard holds
    capture,        \* the ScreenCapture overlay's variables
    confirm,        \* a card's delete confirmation: confirmingDelete and its timers
    installer,      \* the installer (setup-gui), a program of its own
    \* ---- the cards of the account list, by account id
    cards

persisted == <<verifier, masterKey, store, nextId, disk, hist>>
pageVars == <<pinState, accounts, isAddModalOpen, isPinSettingsOpen, loaded>>
modalVars == <<settingsMode, hasPin, closeTimers>>
cardVars == <<now, card>>
deskVars == <<form, win, clipboard, capture, confirm, installer, cards>>
vars == <<verifier, masterKey, store, nextId, disk, pinState, accounts,
          isAddModalOpen, isPinSettingsOpen, loaded, settingsMode, hasPin,
          closeTimers, pads, inflight, hist, session, now, card, form, win,
          clipboard, capture, confirm, installer, cards>>

\* ------------------------------------------------------------ KeyDerivation
\* derive(pin, salt, iterations): PBKDF2 is modelled as a collision-free
\* function of the PIN and the salt.
Derive(pin, salt) == <<"pbkdf2", salt, pin>>

NoVerifier == [set |-> FALSE, salt |-> 0, hash |-> <<>>]

\* verify_pin's comparison: re-derive with the stored salt, compare hashes.
VerifierAccepts(v, pin) == v.set /\ Derive(pin, v.salt) = v.hash

IsValidPin(pin) == Len(pin) = 4 /\ \A i \in 1..Len(pin) : pin[i] \in 0..9

\* ------------------------------------------------------------------ PinPad
NoPad == [mounted |-> FALSE, mode |-> "verify", pin |-> <<>>, confirmPin |-> <<>>,
          isConfirming |-> FALSE, errorMsg |-> NoMsg, timers |-> 0]

\* A freshly created PinPad component.
NewPad(m) == [NoPad EXCEPT !.mounted = TRUE, !.mode = m]

triggerError(p, msg) ==
    IF p.mode = "setup"
    THEN [p EXCEPT !.errorMsg = msg, !.pin = <<>>, !.isConfirming = FALSE,
                   !.confirmPin = <<>>]
    ELSE [p EXCEPT !.errorMsg = msg, !.pin = <<>>]

\* pinPadRef?.triggerError(msg): bind:this is null once the pad is destroyed.
RefTriggerError(p, msg) == IF p.mounted THEN triggerError(p, msg) ELSE p

handleInput(p, num) ==
    IF Len(p.pin) < MAX_PIN_LENGTH
    THEN [p EXCEPT !.pin = Append(@, num), !.errorMsg = NoMsg,
                   !.timers = IF Len(p.pin) + 1 = MAX_PIN_LENGTH THEN @ + 1 ELSE @]
    ELSE p

handleDelete(p) ==
    IF Len(p.pin) > 0
    THEN [p EXCEPT !.pin = SubSeq(@, 1, Len(@) - 1), !.errorMsg = NoMsg]
    ELSE p

\* A faulty handleSubmit: no check of the minimum length.
SubmitEventUnchecked(p) ==
    IF p.mode \in {"verify", "remove"} THEN "submit"
    ELSE IF p.isConfirming /\ p.pin = p.confirmPin THEN "setup"
    ELSE "none"

\* A faulty handleSubmit: the second entry is not compared with the first.
SubmitEventUncompared(p) ==
    IF Len(p.pin) < MIN_PIN_LENGTH THEN "none"
    ELSE IF p.mode \in {"verify", "remove"} THEN "submit"
    ELSE IF p.isConfirming THEN "setup"
    ELSE "none"

\* What handleSubmit dispatches: "submit", "setup" or nothing.
SubmitEvent(p) ==
    IF Len(p.pin) < MIN_PIN_LENGTH THEN "none"
    ELSE IF p.mode \in {"verify", "remove"} THEN "submit"
    ELSE IF p.isConfirming /\ p.pin = p.confirmPin THEN "setup"
    ELSE "none"

\* The PinPad's own state after handleSubmit.
handleSubmit(p) ==
    IF Len(p.pin) < MIN_PIN_LENGTH THEN triggerError(p, MsgTooShort)
    ELSE IF p.mode \in {"verify", "remove"} THEN p
    ELSE IF ~p.isConfirming
         THEN [p EXCEPT !.confirmPin = p.pin, !.pin = <<>>, !.isConfirming = TRUE]
    ELSE IF p.pin = p.confirmPin THEN p
    ELSE triggerError(p, MsgConfirmMismatch)

\* Component destruction: the window keydown listener is removed; pending
\* setTimeout callbacks are not cleared and still run handleSubmit on the
\* destroyed instance's variables.  Such a callback dispatches an event only
\* if handleSubmit would dispatch one now (it changes pin and isConfirming only
\* on the paths that dispatch nothing, and then never dispatches again), so
\* a destroyed instance that cannot dispatch is dropped, and errorMsg, which
\* is no longer shown, is cleared.
DestroyPad(p) ==
    IF p.timers = 0 \/ SubmitEvent(p) = "none" THEN NoPad
    ELSE [p EXCEPT !.mounted = FALSE, !.errorMsg = NoMsg]

\* An unmounted instance without pending timers can no longer act.
Settle(p) == IF ~p.mounted /\ p.timers = 0 THEN NoPad ELSE p



\* ---------------------------------------------------------------- requests
\* A request in flight: the command, its argument, the handler that awaits
\* it (k), the pinState the page was in when it invoked the command (at),
\* and once the backend has executed it, the response.
NoRes == [ok |-> FALSE, val |-> FALSE, err |-> "none"]

\* n: the `accounts.length` handleDrop keeps across its awaits; in a
\* request of a card of the account list, the id of the account whose card
\* awaits it; in a card's delete_account or update_account, the nonce of
\* the `account` the card holds.
RequestWith(cmd, arg, k, at, n) ==
    [cmd |-> cmd, arg |-> arg, k |-> k, at |-> at, n |-> n, st |-> "sent",
     res |-> NoRes]

Request(cmd, arg, k, at) == RequestWith(cmd, arg, k, at, 0)

RemoveAt(s, i) == SubSeq(s, 1, i - 1) \o SubSeq(s, i + 1, Len(s))

\* The requests a handler of the current page awaits.
Awaited == {i \in 1..Len(inflight) : inflight[i].k # "orphan"}

CanSend == Cardinality(Awaited) < MaxInflight

\* invoke(cmd, arg) from a handler started by a user event or a timer, with
\* fewer than limit requests awaited.
InvokeWithin(limit, cmd, arg, k, at) ==
    /\ Cardinality(Awaited) < limit
    /\ inflight' = Append(inflight, Request(cmd, arg, k, at))

Invoke(cmd, arg, k, at) ==
    /\ CanSend
    /\ InvokeWithin(MaxInflight, cmd, arg, k, at)

\* The handler awaiting request i ends without a further request.
Finish(i) == inflight' = RemoveAt(inflight, i)

\* The handler awaiting request i goes on to its next invoke.
FinishInvokeWith(i, cmd, arg, k, at, n) ==
    inflight' = Append(RemoveAt(inflight, i), RequestWith(cmd, arg, k, at, n))

FinishInvoke(i, cmd, arg, k, at) == FinishInvokeWith(i, cmd, arg, k, at, 0)

\* ------------------------------------------------------- backend (spec)
\* The persisted state as one value, and a command's outcome: the response
\* and the persisted state it leaves.
Vault ==
    [verifier |-> verifier, masterKey |-> masterKey, store |-> store,
     nextId |-> nextId, disk |-> disk, hist |-> hist]

Outcome(ok, val, vault) ==
    [res |-> [ok |-> ok, val |-> val, err |-> IF ok THEN "none" ELSE "IOError"],
     vault |-> vault]

\* Any command may fail (IOError) and then changes nothing.
Failure == Outcome(FALSE, FALSE, Vault)

\* A command rejected with an error of the given kind changes nothing.
Error(kind) == [res |-> [ok |-> FALSE, val |-> FALSE, err |-> kind], vault |-> Vault]

\* has_pin() -> bool: true iff a PinVerifier is persisted.
has_pin == {Outcome(TRUE, verifier.set, Vault), Failure}

\* A faulty set_pin: an existing verifier is kept.
KeepFirstVerifier(old, pin, salt) ==
    IF old.set THEN old ELSE [set |-> TRUE, salt |-> salt, hash |-> Derive(pin, salt)]

\* The verifier set_pin stores for a PIN and a fresh salt; an existing
\* verifier is overwritten.
StoreVerifier(old, pin, salt) == [set |-> TRUE, salt |-> salt, hash |-> Derive(pin, salt)]

CountSet(n) == IF n < 2 THEN n + 1 ELSE n

\* set_pin(pin): validates the format, generates a fresh salt, derives and
\* stores the verifier.
set_pin(pin) ==
    IF IsValidPin(pin)
    THEN {Outcome(TRUE, TRUE,
                  [Vault EXCEPT !.verifier = StoreVerifier(verifier, pin, salt),
                                !.hist = [lastSetPin |-> pin, sets |-> CountSet(hist.sets),
                                          pinRemoved |-> FALSE]]) : salt \in Salts}
         \cup {Failure}
    ELSE {Failure}

\* verify_pin(pin) -> bool: re-derives and compares; false (not an error)
\* on mismatch.
verify_pin(pin) == {Outcome(TRUE, VerifierAccepts(verifier, pin), Vault), Failure}

\* A faulty remove_pin: the master key is regenerated with the verifier.
DeleteVerifierAndKey(vault) ==
    [vault EXCEPT !.verifier = NoVerifier, !.masterKey = @ + 1,
                  !.hist = [lastSetPin |-> <<>>, sets |-> vault.hist.sets,
                            pinRemoved |-> TRUE]]

\* What remove_pin leaves of the persisted state.
DeleteVerifier(vault) ==
    [vault EXCEPT !.verifier = NoVerifier,
                  !.hist = [lastSetPin |-> <<>>, sets |-> vault.hist.sets,
                            pinRemoved |-> TRUE]]

\* remove_pin(current_pin): requires verify_pin(current_pin) to succeed; on
\* success deletes the PinVerifier.  Accounts and master key are untouched.
remove_pin(pin) ==
    IF VerifierAccepts(verifier, pin)
    THEN {Outcome(TRUE, TRUE, DeleteVerifier(Vault)), Failure}
    ELSE {Failure}

\* get_accounts() -> Account[]: all rows.
get_accounts == {Outcome(TRUE, store, Vault), Failure}

\* SecretCipher: AEAD under the master key; decryption fails closed.
Encrypt(secret, key, nonce) == <<"aead", key, nonce, secret>>

Decrypts(ct, nonce, key) == ct[2] = key /\ ct[3] = nonce

Decrypt(ct, nonce, key) == ct[4]

\* A nonce never used before under this key.
FreshNonce(vault) == vault.nextId

Row(id, label, ct, nonce) ==
    [id |-> id, issuer |-> label[1], account_name |-> label[2],
     encrypted_secret |-> ct, secret_nonce |-> nonce]

\* A table without the UNIQUE constraint.
NoLabelCheck(rows, label) == FALSE

\* UNIQUE(issuer, account_name).
HasLabel(rows, label) ==
    \E a \in rows : a.issuer = label[1] /\ a.account_name = label[2]

\* AUTOINCREMENT ids are available up to MaxAccounts.
HasRoom(vault) == vault.nextId <= MaxAccounts

\* A table without AUTOINCREMENT: the id after the largest one in the table.
MaxRowid(vault) ==
    IF vault.store = {} THEN 1
    ELSE (CHOOSE m \in {a.id : a \in vault.store} :
              \A a \in vault.store : a.id <= m) + 1

\* id INTEGER PRIMARY KEY AUTOINCREMENT: the id after the largest one the
\* table has ever held.
AutoIncrement(vault) == vault.nextId

\* AccountStore.add: encrypt and insert a row that is known to fit.
Insert(vault, label, secret) ==
    [vault EXCEPT
        !.store = @ \cup {Row(AutoIncrement(vault), label,
                              Encrypt(secret, vault.masterKey, FreshNonce(vault)),
                              FreshNonce(vault))},
        !.nextId = @ + 1]

\* The base32 alphabet.
Base32 ==
    {UpperCase[j] : j \in 1..Len(UpperCase)} \cup {"2", "3", "4", "5", "6", "7"}

\* The secret as add_account validates and stores it: whitespace removed,
\* upper-cased.
Normalised(secret) == toUpperCase(RemoveWhitespace(secret))

\* A syntactically valid base32 string.
IsBase32(s) == s # <<>> /\ \A j \in 1..Len(s) : s[j] \in Base32

\* A required field is missing.
MissingField(arg) == arg.label[1] = <<>> \/ arg.label[2] = <<>> \/ arg.secret = <<>>

\* add_account(issuer, account_name, secret_key): ValidationError on
\* malformed input, ConflictError on a duplicate pair.
add_account(arg) ==
    IF MissingField(arg) \/ ~IsBase32(Normalised(arg.secret))
    THEN {Error("ValidationError"), Failure}
    ELSE IF HasLabel(store, arg.label) THEN {Error("ConflictError"), Failure}
    ELSE IF HasRoom(Vault)
         THEN {Outcome(TRUE, TRUE, Insert(Vault, arg.label, Normalised(arg.secret))),
               Failure}
    ELSE {Failure}

\* A faulty update: the pair is not checked against the other rows.
CollidesNever(rows, id, label) == FALSE

\* The pair belongs to a different row.
Collides(rows, id, label) == HasLabel({a \in rows : a.id # id}, label)

\* A faulty update: the secret is encrypted again under a new nonce.
RelabelReencrypt(a, label) ==
    [a EXCEPT !.issuer = label[1], !.account_name = label[2],
              !.encrypted_secret = <<"aead", @[2], @[3] + 1, @[4]>>,
              !.secret_nonce = @ + 1]

\* The row with its issuer and account_name replaced.
Relabel(a, label) == [a EXCEPT !.issuer = label[1], !.account_name = label[2]]

\* update_account(id, issuer, account_name): metadata only; NotFoundError,
\* or ConflictError if the pair belongs to a different row.
update_account(arg) ==
    IF ~\E a \in store : a.id = arg.id THEN {Error("NotFoundError"), Failure}
    ELSE IF Collides(store, arg.id, arg.label) THEN {Error("ConflictError"), Failure}
    ELSE {Outcome(TRUE, TRUE,
                  [Vault EXCEPT !.store =
                      {IF a.id = arg.id THEN Relabel(a, arg.label) ELSE a : a \in store}]),
          Failure}

\* delete_account(id): NotFoundError if absent.
delete_account(id) ==
    IF \E a \in store : a.id = id
    THEN {Outcome(TRUE, TRUE, [Vault EXCEPT !.store = {a \in store : a.id # id}]),
          Failure}
    ELSE {Error("NotFoundError"), Failure}

\* TotpEngine.current_code(encrypted_secret, nonce, key, now): the code is a
\* function of the decrypted secret and the time step floor(now / 30);
\* remaining_seconds = 30 - (now mod 30).
current_code(ct, nonce, key, t) ==
    [code |-> <<"totp", Decrypt(ct, nonce, key), t \div 30>>,
     remaining_seconds |-> 30 - (t % 30)]

\* get_current_otp(encrypted_secret, nonce): CryptoError if decryption fails.
get_current_otp(arg) ==
    IF Decrypts(arg.ct, arg.nonce, masterKey)
    THEN {Outcome(TRUE, current_code(arg.ct, arg.nonce, masterKey, now), Vault), Failure}
    ELSE {Failure}

\* Every row of a vault yields a code.
AllYieldCodes(vault) ==
    \A a \in vault.store : Decrypts(a.encrypted_secret, a.secret_nonce, vault.masterKey)

\* The rows in their natural order by id.
RECURSIVE ById(_)
ById(rows) ==
    IF rows = {} THEN <<>>
    ELSE LET a == CHOOSE x \in rows : \A y \in rows : x.id <= y.id
         IN <<a>> \o ById(rows \ {a})

\* BackupCodec.export: the plaintext backup document.
ExportDoc(vault) ==
    LET rows == ById(vault.store)
    IN [j \in 1..Len(rows) |->
          [issuer |-> rows[j].issuer, account_name |-> rows[j].account_name,
           secret |-> Decrypt(rows[j].encrypted_secret, rows[j].secret_nonce,
                              vault.masterKey)]]

\* export_backup(path): fails atomically if a decryption fails.
export_backup ==
    IF AllYieldCodes(Vault)
    THEN {Outcome(TRUE, TRUE, [Vault EXCEPT !.disk = [exists |-> TRUE,
                                                      doc |-> ExportDoc(Vault)]]),
          Failure}
    ELSE {Failure}

\* BackupCodec.import: re-encrypts and adds each record; duplicate pairs
\* are skipped; [vault, count] with the count of rows inserted.
RECURSIVE ImportDoc(_, _, _)
ImportDoc(vault, doc, count) ==
    IF doc = <<>> THEN [vault |-> vault, count |-> count, fits |-> TRUE]
    ELSE LET r == Head(doc)
             label == <<r.issuer, r.account_name>>
         IN IF HasLabel(vault.store, label) THEN ImportDoc(vault, Tail(doc), count)
            ELSE IF ~HasRoom(vault) THEN [vault |-> vault, count |-> count, fits |-> FALSE]
            ELSE ImportDoc(Insert(vault, label, r.secret), Tail(doc), count + 1)

\* import_backup(path) -> imported_count.
import_backup ==
    IF disk.exists /\ ImportDoc(Vault, disk.doc, 0).fits
    THEN {Outcome(TRUE, ImportDoc(Vault, disk.doc, 0).count,
                  ImportDoc(Vault, disk.doc, 0).vault),
          Failure}
    ELSE {Failure}

\* ------------------------------------------------ dialogs and dropped files
\* save() / open() of the dialog plugin: the user picks the backup path
\* (val = TRUE) or cancels (null).
PickPath == {Outcome(TRUE, TRUE, Vault), Outcome(TRUE, FALSE, Vault)}

\* file.text() followed by JSON.parse: whether the text parses, and the
\* length of the parsed array.
ReadFile(file) ==
    IF file = "backup" THEN {Outcome(TRUE, [json |-> TRUE, length |-> Len(disk.doc)], Vault)}
    ELSE IF file = "foreign"
         THEN {Outcome(TRUE, [json |-> TRUE, length |-> ForeignLength], Vault)}
    ELSE {Outcome(TRUE, [json |-> FALSE, length |-> 0], Vault)}

\* --------------------------------------- screenshot and otpauth (spec)
\* What a QR code on the screen may hold: an otpauth URI of an account, or
\* one whose secret is not base32.
GoodUri == [scheme |-> "otpauth", issuer |-> GitHub, account_name |-> ops, secret |-> Jbsw]
BadUri == [scheme |-> "otpauth", issuer |-> GitHub, account_name |-> ops,
           secret |-> <<"J", "B", "1">>]

\* capture() -> image.
take_screenshot == {Outcome(TRUE, TRUE, Vault), Failure}

\* decode_auto(image) / decode_region(image, rect) -> otpauth_uri |
\* ParseError: whatever QR code the screen shows, or none.
decode_screenshot ==
    {Outcome(TRUE, GoodUri, Vault), Outcome(TRUE, BadUri, Vault), Error("ParseError")}

\* OtpAuthParser.parse(uri) -> {issuer, account_name, secret} | ParseError.
parse_otpauth_uri(uri) ==
    IF uri.scheme = "otpauth" /\ IsBase32(uri.secret)
    THEN {Outcome(TRUE, [issuer |-> uri.issuer, account_name |-> uri.account_name,
                         secret |-> uri.secret], Vault)}
    ELSE {Error("ParseError")}

\* The outcomes of a request.
Outcomes(r) ==
    CASE r.cmd = "has_pin" -> has_pin
      [] r.cmd = "set_pin" -> set_pin(r.arg)
      [] r.cmd = "verify_pin" -> verify_pin(r.arg)
      [] r.cmd = "remove_pin" -> remove_pin(r.arg)
      [] r.cmd = "get_accounts" -> get_accounts
      [] r.cmd = "add_account" -> add_account(r.arg)
      [] r.cmd = "update_account" -> update_account(r.arg)
      [] r.cmd = "delete_account" -> delete_account(r.arg)
      [] r.cmd = "get_current_otp" -> get_current_otp(r.arg)
      [] r.cmd = "export_backup" -> export_backup
      [] r.cmd = "import_backup" -> import_backup
      [] r.cmd \in {"save", "open"} -> PickPath
      [] r.cmd = "text" -> ReadFile(r.arg)
      [] r.cmd = "take_screenshot" -> take_screenshot
      [] r.cmd \in {"decode_screenshot_auto", "decode_screenshot_region"} -> decode_screenshot
      [] r.cmd = "parse_otpauth_uri" -> parse_otpauth_uri(r.arg)

Apply(o) ==
    /\ verifier' = o.vault.verifier
    /\ masterKey' = o.vault.masterKey
    /\ store' = o.vault.store
    /\ nextId' = o.vault.nextId
    /\ disk' = o.vault.disk
    /\ hist' = o.vault.hist

\* The response handler k receives for request i: the backend executes the
\* request now, or has executed it before (Exec).
Answers(i, k) ==
    IF inflight[i].k # k THEN {}
    ELSE IF inflight[i].st = "sent" THEN Outcomes(inflight[i])
    ELSE {[res |-> inflight[i].res, vault |-> Vault]}

\* The backend executes a request while another one is in flight; its
\* handler resumes later.  (A request alone in flight is executed in the
\* step that resumes its handler: nothing else reads or writes the
\* persisted state in between.)
Exec ==
    \E i \in 1..Len(inflight) :
        /\ inflight[i].st = "sent" /\ inflight[i].k # "orphan"
        /\ Len(inflight) > 1
        /\ \E o \in Outcomes(inflight[i]) :
              /\ Apply(o)
              /\ inflight' = [inflight EXCEPT ![i].st = "done", ![i].res = o.res]
        /\ UNCHANGED <<deskVars, cardVars, pageVars, modalVars, pads, session>>

\* A request sent by a page that has been reloaded since: nobody awaits it.
ExecOrphan ==
    \E i \in 1..Len(inflight) :
        /\ inflight[i].k = "orphan"
        /\ \E o \in Outcomes(inflight[i]) : Apply(o)
        /\ inflight' = RemoveAt(inflight, i)
        /\ UNCHANGED <<deskVars, cardVars, pageVars, modalVars, pads, session>>

\* ------------------------------------------------- AccountCard: its state
\* The placeholder code, and the code shown after a failed request.
NoCode == <<"------">>
ErrorCode == <<"error">>

\* A card's variables at component creation.  due: a setInterval callback
\* is waiting to run.  History, not program state: issued, how many
\* requests the card has sent in each 30-second step, and mountedAt, the
\* step in which onMount ran.
Steps == 0..(MaxNow \div Period)

NoCard ==
    [mounted |-> FALSE, variant |-> "tick", currentCode |-> NoCode,
     remainingSeconds |-> 30, lastTimeStep |-> -1, due |-> FALSE,
     issued |-> [st \in Steps |-> 0], mountedAt |-> -1]

\* The cards of the account list before any of them is created.
NoCards == [id \in 1..MaxAccounts |-> NoCard]

\* A faulty list: every card is created anew when the list changes.
RenderedAfresh(cs, accts) == NoCards

\* A faulty list: the card of an account that has left the list is kept,
\* its interval running.
RenderedKept(cs, accts) == cs

\* {#each accounts as account (account.id)}: the card of an account that
\* has left the list is destroyed (onDestroy clears its interval); the
\* other cards are kept.
Rendered(cs, accts) ==
    [id \in 1..MaxAccounts |->
        IF \E a \in accts : a.id = id THEN cs[id] ELSE NoCard]

\* ------------------------------------------------- ScreenCapture: state
\* The overlay's variables at component creation.  dpr:
\* window.devicePixelRatio, in quarters.
NoCapture ==
    [isDrawing |-> FALSE, startX |-> 0, startY |-> 0, currentX |-> 0, currentY |-> 0,
     dpr |-> 4]

\* ------------------------------------- AccountCard: delete confirmation
\* confirmingDelete, and the times at which the pending
\* setTimeout(() => confirmingDelete = false, 3000) callbacks are due.
NoConfirm == [confirmingDelete |-> FALSE, timers |-> {}]

\* requestDelete's setTimeout delay, in seconds.
ConfirmTimeout == 3
\* The seconds the confirm mode is observed for.
MaxConfirmNow == 5

\* --------------------------------------------------------- installer: state
\* Folder dialogs open, and run_install calls in flight, at the same time.
MaxDialogs == 1
MaxInstalls == 2

\* Paths and URLs; Empty is "", and stands for the dialog's null as well.
Empty == ""
DefaultPath == "C:\\Program Files\\Secure2FA"
FallbackPath == "C:\\Secure2FA"
ChosenPath == "D:\\Apps"
OtherPath == "E:\\Tools"
Url == "https://releases/setup.zip"

\* The installer before its page is loaded: selectedPath = "",
\* downloadUrl = "", no listener.  info is the answer of
\* check_latest_version, running the run_install calls in flight.
NoInstaller ==
    [stage |-> "none", selectedPath |-> Empty, downloadUrl |-> Empty,
     info |-> [ok |-> FALSE, download_url |-> Empty], disabled |-> FALSE,
     pointerEvents |-> "auto", runListener |-> FALSE, closeListener |-> FALSE,
     dialogs |-> 0, running |-> <<>>, closed |-> FALSE]

\* ------------------------------------- AddAccountModal and window: state
\* errorMessage, named by what it says.
NoError == ""
MsgFillAll == "fill in all fields"
MsgAddFailed == "add failed"
MsgCaptureFailed == "screenshot capture failed"
MsgNoQr == "QR code not recognised"

\* The window: shown, in fullscreen, always on top, decorated, and where
\* it is placed ("center", or "moved" where the user has dragged it).
InitWindow ==
    [visible |-> TRUE, fullscreen |-> FALSE, alwaysOnTop |-> FALSE,
     decorations |-> TRUE, position |-> "center"]

\* The modal's variables at component creation.  awaiting: the handler that
\* awaits restoreWindow().  History, not program state: before, the window
\* as it was when handleQrScan started.
NoForm ==
    [issuer |-> <<>>, accountName |-> <<>>, secretKey |-> <<>>,
     errorMessage |-> NoError, isSubmitting |-> FALSE, isScanning |-> FALSE,
     showScreenCapture |-> FALSE, awaiting |-> "none", before |-> InitWindow]

\* ------------------------------------------------------------------- Init
\* The toast "N accounts loaded": the N it shows, the handler that showed
\* it, and whether and with what count import_backup returned to that
\* handler.
NoLoaded == [shown |-> FALSE, n |-> 0, by |-> "none", called |-> FALSE, imported |-> 0]

Loaded(n, by, called, imported) ==
    [shown |-> TRUE, n |-> n, by |-> by, called |-> called, imported |-> imported]

\* MasterKeyMaterial, generated once at first run.
InstallKey == 1

\* The rows an installation without a PIN holds when it is started: none,
\* or one account.
InstalledStores ==
    {{}} \cup {{Row(1, l, Encrypt(x, InstallKey, 1), 1)} : l \in {<<GitHub, dev>>},
                                                          x \in Secrets}

\* The application started with no PIN set and the given rows, right
\* after the page's onMount: initializePinState awaiting has_pin.
Launch(rows) ==
    /\ verifier = NoVerifier
    /\ masterKey = InstallKey
    /\ store = rows
    /\ nextId = Cardinality(rows) + 1
    /\ disk = [exists |-> FALSE, doc |-> {}]
    /\ pinState = "loading"
    /\ accounts = {}
    /\ isAddModalOpen = FALSE
    /\ isPinSettingsOpen = FALSE
    /\ loaded = NoLoaded
    /\ settingsMode = "select"
    /\ hasPin = FALSE
    /\ closeTimers = 0
    /\ pads = [id \in {"page", "modal"} |-> NoPad]
    /\ inflight = <<Request("has_pin", <<>>, "initializePinState", "loading")>>
    /\ hist = [lastSetPin |-> <<>>, sets |-> 0, pinRemoved |-> FALSE]
    /\ session = [pinAtLaunch |-> FALSE, verified |-> FALSE, afterRemove |-> FALSE]
    /\ now = 0
    /\ card = NoCard
    /\ form = NoForm
    /\ win = InitWindow
    /\ clipboard = <<>>
    /\ capture = NoCapture
    /\ confirm = NoConfirm
    /\ installer = NoInstaller
    /\ cards = NoCards

\* A fresh installation.
Init == Launch({})

\* An installation that may already hold an account.
InitInstalled == \E rows \in InstalledStores : Launch(rows)

\* --------------------------------------------------- page load and reload
\* A new page instance: every page, modal and PinPad variable is back at
\* its initial value, pending timers and awaiting handlers are gone, and
\* onMount calls initializePinState.
LoadPage(pending) ==
    /\ pinState' = "loading"
    /\ accounts' = {}
    /\ isAddModalOpen' = FALSE
    /\ isPinSettingsOpen' = FALSE
    /\ loaded' = NoLoaded
    /\ settingsMode' = "select"
    /\ hasPin' = FALSE
    /\ closeTimers' = 0
    /\ pads' = [id \in {"page", "modal"} |-> NoPad]
    /\ inflight' = Append(pending, Request("has_pin", <<>>, "initializePinState", "loading"))
    /\ session' = [pinAtLaunch |-> verifier.set, verified |-> FALSE,
                   afterRemove |-> hist.pinRemoved]
    /\ card' = NoCard
    /\ form' = NoForm
    /\ cards' = NoCards
    /\ capture' = NoCapture
    /\ confirm' = NoConfirm
    /\ UNCHANGED <<persisted, now, win, clipboard, installer>>

\* The commands that change the persisted state.
Writes == {"set_pin", "remove_pin", "add_account", "update_account", "delete_account",
           "export_backup", "import_backup"}

\* Requests the backend has received but not executed are still executed
\* after a reload of the page; nobody awaits them any more.  Those that
\* change nothing are dropped.
Orphans(s) ==
    LET keep == {i \in 1..Len(s) : s[i].st = "sent" /\ s[i].cmd \in Writes}
        F[i \in 0..Len(s)] ==
            IF i = 0 THEN <<>>
            ELSE IF i \in keep THEN Append(F[i - 1], [s[i] EXCEPT !.k = "orphan"])
            ELSE F[i - 1]
    IN F[Len(s)]

\* The window is shown, and neither a modal nor the capture overlay covers
\* the page.
PageClickable ==
    /\ ~isAddModalOpen /\ ~isPinSettingsOpen
    /\ win.visible /\ ~form.showScreenCapture

\* The lock button of the header: window.location.reload().
LockButton ==
    /\ pinState = "unlocked"
    /\ PageClickable
    /\ Len(Orphans(inflight)) <= MaxOrphans
    /\ LoadPage(Orphans(inflight))

\* The application is closed and started again.
Restart == LoadPage(<<>>)

\* A faulty initializePinState: without a PIN the gate is skipped.
InitialStateSkipsGate(ok, hasPinNow) ==
    IF ok /\ hasPinNow THEN "locked" ELSE IF ok THEN "unlocked" ELSE "needs_setup"

\* The pinState initializePinState sets, given has_pin's answer.
InitialState(ok, hasPinNow) == IF ok /\ hasPinNow THEN "locked" ELSE "needs_setup"

\* initializePinState, around `await invoke("has_pin")`.  The backend has
\* had the requests of the page instance that is gone since before the
\* reload: it executes them before or after has_pin, and before has_pin's
\* answer reaches the new page.
initializePinState ==
    \E i \in 1..Len(inflight) : \E o \in Answers(i, "initializePinState") :
        /\ Awaited = 1..Len(inflight)
        /\ Apply(o)
        /\ LET next == InitialState(o.res.ok, o.res.val)
           IN /\ pinState' = next
              /\ pads' = [pads EXCEPT !["page"] =
                            NewPad(IF next = "locked" THEN "verify" ELSE "setup")]
        /\ Finish(i)
        /\ UNCHANGED <<deskVars, cardVars, accounts, isAddModalOpen, isPinSettingsOpen, loaded,
                       modalVars, session>>

\* ------------------------------------------------------- PinPad: user keys
\* <svelte:window on:keydown>: a digit key reaches every mounted PinPad.
KeyDigit(id, d) ==
    /\ pads[id].mounted
    /\ ~(Len(pads[id].pin) + 1 = MAX_PIN_LENGTH /\ pads[id].timers >= MaxTimers)
    /\ Len(pads[id].pin) < MAX_PIN_LENGTH => Typing(Append(pads[id].pin, d))
    /\ pads' = [pads EXCEPT ![id] = handleInput(@, d)]
    /\ UNCHANGED <<deskVars, cardVars, persisted, pageVars, modalVars, inflight, session>>

KeyBackspace(id) ==
    /\ pads[id].mounted
    /\ pads' = [pads EXCEPT ![id] = handleDelete(@)]
    /\ UNCHANGED <<deskVars, cardVars, persisted, pageVars, modalVars, inflight, session>>

\* The keys of the keyboard: the digit keys, in the order of their digits,
\* and the other keys pressed.
DigitKeys == <<"0", "1", "2", "3", "4", "5", "6", "7", "8", "9">>
Keys == {"0", "9", "Backspace", "a"}

\* /^[0-9]$/.test(key)
IsDigitKey(key) == \E j \in 1..Len(DigitKeys) : DigitKeys[j] = key

\* parseInt(key, 10) of a digit key.
parseInt(key) == (CHOOSE j \in 1..Len(DigitKeys) : DigitKeys[j] = key) - 1

\* handleKeydown: a digit key is entered, Backspace deletes, every other
\* key is ignored.
handleKeydown(id, key) ==
    /\ pads[id].mounted
    /\ ~(IsDigitKey(key) /\ Len(pads[id].pin) + 1 = MAX_PIN_LENGTH
                         /\ pads[id].timers >= MaxTimers)
    /\ pads' = [pads EXCEPT ![id] =
                  IF IsDigitKey(key) THEN handleInput(@, parseInt(key))
                  ELSE IF key = "Backspace" THEN handleDelete(@)
                  ELSE @]
    /\ UNCHANGED <<deskVars, cardVars, persisted, pageVars, modalVars, inflight, session>>

\* The reset button shown in setup mode while confirming.
ResetButton(id) ==
    /\ pads[id].mounted /\ pads[id].mode = "setup" /\ pads[id].isConfirming
    /\ pads' = [pads EXCEPT ![id] = [@ EXCEPT !.isConfirming = FALSE, !.pin = <<>>,
                                               !.confirmPin = <<>>, !.errorMsg = NoMsg]]
    /\ UNCHANGED <<deskVars, cardVars, persisted, pageVars, modalVars, inflight, session>>

\* ------------------------------------------- PinPad: delayed handleSubmit
\* The command a dispatched PinPad event leads to: the page's PinPad is
\* wired to handlePinSubmit / handlePinSetup, the modal's to handleRemove /
\* handleSetup.
EventCmd(id, ev) ==
    IF ev = "setup" THEN "set_pin"
    ELSE IF id = "page" THEN "verify_pin" ELSE "remove_pin"

EventHandler(id, ev) ==
    IF id = "page" THEN (IF ev = "setup" THEN "handlePinSetup" ELSE "handlePinSubmit")
    ELSE (IF ev = "setup" THEN "handleSetup" ELSE "handleRemove")

\* setTimeout(handleSubmit, 200) fires: handleSubmit runs on the instance
\* that set the timer, and the event it dispatches starts the parent's
\* handler, which runs up to its `await invoke(...)`.
SubmitTimer(id) ==
    /\ pads[id].timers > 0
    /\ LET p == [pads[id] EXCEPT !.timers = @ - 1]
           ev == SubmitEvent(p)
       IN /\ pads' = [pads EXCEPT ![id] = Settle(handleSubmit(p))]
          /\ IF ev = "none"
             THEN UNCHANGED inflight
             ELSE Invoke(EventCmd(id, ev), p.pin, EventHandler(id, ev), pinState)
    /\ UNCHANGED <<deskVars, cardVars, persisted, pageVars, modalVars, session>>


\* ------------------------------------------------------ +page: PIN handlers
\* A faulty loadAccounts: no check of pinState.
LoadAccountsUnguarded(state) == TRUE

\* loadAccounts up to its await: nothing unless the page is unlocked.
LoadAccountsGuard(state) == state = "unlocked"

\* A handler awaiting request i ends by calling loadAccounts().
FinishLoadAccounts(i, state) ==
    IF LoadAccountsGuard(state)
    THEN FinishInvoke(i, "get_accounts", <<>>, "loadAccounts", state)
    ELSE Finish(i)

\* A faulty handlePinSubmit: any answer unlocks.
UnlockOnAnswer(state, ok, isValid) == IF ok THEN "unlocked" ELSE state

\* The pinState handlePinSubmit leaves, given verify_pin's answer.
SubmitNextState(state, ok, isValid) == IF ok /\ isValid THEN "unlocked" ELSE state

\* handlePinSubmit after `await invoke("verify_pin")`, for request i
\* answered by o.
PinSubmitAnswer(i, o) ==
        /\ Apply(o)
        /\ LET next == SubmitNextState(pinState, o.res.ok, o.res.val)
           IN /\ pinState' = next
              /\ IF o.res.ok /\ o.res.val
                 THEN /\ pads' = [pads EXCEPT !["page"] = DestroyPad(@)]
                      /\ session' = [session EXCEPT !.verified = TRUE]
                      /\ FinishLoadAccounts(i, next)
                 ELSE /\ pads' = [pads EXCEPT !["page"] =
                                    RefTriggerError(@, IF o.res.ok THEN MsgPinMismatch
                                                       ELSE MsgError)]
                      /\ Finish(i)
                      /\ UNCHANGED session
        /\ UNCHANGED <<deskVars, cardVars, accounts, isAddModalOpen, isPinSettingsOpen, loaded, modalVars>>

\* handlePinSubmit, around `await invoke("verify_pin")`.
handlePinSubmit ==
    \E i \in 1..Len(inflight) : \E o \in Answers(i, "handlePinSubmit") :
        PinSubmitAnswer(i, o)

\* handlePinSetup, around `await invoke("set_pin")`.
handlePinSetup ==
    \E i \in 1..Len(inflight) : \E o \in Answers(i, "handlePinSetup") :
        /\ Apply(o)
        /\ IF o.res.ok
           THEN /\ pinState' = "unlocked"
                /\ pads' = [pads EXCEPT !["page"] = DestroyPad(@)]
                /\ FinishLoadAccounts(i, "unlocked")
           ELSE /\ pads' = [pads EXCEPT !["page"] = RefTriggerError(@, MsgSetupFailed)]
                /\ Finish(i)
                /\ UNCHANGED pinState
        /\ UNCHANGED <<deskVars, cardVars, accounts, isAddModalOpen, isPinSettingsOpen, loaded, modalVars,
                       session>>

\* loadAccounts, around `await invoke("get_accounts")`; a failure only
\* shows a toast.
LoadAccountsAnswer(i, o) ==
        /\ Apply(o)
        /\ accounts' = IF o.res.ok THEN o.res.val ELSE accounts
        /\ cards' = Rendered(cards, accounts')
        /\ Finish(i)
        /\ UNCHANGED <<form, win, clipboard, capture, confirm, installer, cardVars, pinState, isAddModalOpen, isPinSettingsOpen, loaded, modalVars,
                       pads, session>>

loadAccounts ==
    \E i \in 1..Len(inflight) : \E o \in Answers(i, "loadAccounts") :
        LoadAccountsAnswer(i, o)

\* -------------------------------------------------------- PinSettingsModal
\* The settings button of the header; the modal's reactive block then runs
\* checkPinStatus() and sets mode = "select".
OpenSettings ==
    /\ pinState = "unlocked"
    /\ PageClickable
    /\ isPinSettingsOpen' = TRUE
    /\ settingsMode' = "select"
    /\ Invoke("has_pin", <<>>, "checkPinStatus", pinState)
    /\ UNCHANGED <<deskVars, cardVars, persisted, pinState, accounts, isAddModalOpen, loaded, hasPin,
                   closeTimers, pads, session>>

\* checkPinStatus, around `await invoke("has_pin")`.
checkPinStatus ==
    \E i \in 1..Len(inflight) : \E o \in Answers(i, "checkPinStatus") :
        /\ Apply(o)
        /\ hasPin' = (o.res.ok /\ o.res.val)
        /\ Finish(i)
        /\ UNCHANGED <<deskVars, cardVars, pageVars, settingsMode, closeTimers, pads, session>>

\* The buttons of the select view: "change PIN" / "set new PIN" (setup) and
\* "turn lock off" (remove, shown only when hasPin).  The view's PinPad is
\* created once the previous instance has no timer left.
SelectMode(m) ==
    /\ isPinSettingsOpen /\ settingsMode = "select"
    /\ m = "remove" => hasPin
    /\ pads["modal"] = NoPad
    /\ settingsMode' = m
    /\ pads' = [pads EXCEPT !["modal"] = NewPad(m)]
    /\ UNCHANGED <<deskVars, cardVars, persisted, pageVars, hasPin, closeTimers, inflight, session>>

\* close(): showModal = false, and mode = "select" 300 ms later.
close ==
    /\ closeTimers < MaxTimers
    /\ isPinSettingsOpen' = FALSE
    /\ closeTimers' = closeTimers + 1
    /\ pads' = [pads EXCEPT !["modal"] = DestroyPad(@)]

\* The back button or Escape while mode /= "select".
Back ==
    /\ isPinSettingsOpen /\ settingsMode # "select"
    /\ settingsMode' = "select"
    /\ pads' = [pads EXCEPT !["modal"] = DestroyPad(@)]
    /\ UNCHANGED <<deskVars, cardVars, persisted, pinState, accounts, isAddModalOpen, isPinSettingsOpen,
                   loaded, hasPin, closeTimers, inflight, session>>

\* The close button, a backdrop click or Escape while mode = "select".
CloseButton ==
    /\ isPinSettingsOpen /\ settingsMode = "select"
    /\ close
    /\ UNCHANGED <<deskVars, cardVars, persisted, pinState, accounts, isAddModalOpen, loaded, settingsMode,
                   hasPin, inflight, session>>

\* The timer set by close().
CloseTimer ==
    /\ closeTimers > 0
    /\ closeTimers' = closeTimers - 1
    /\ settingsMode' = "select"
    /\ pads' = [pads EXCEPT !["modal"] = DestroyPad(@)]
    /\ UNCHANGED <<deskVars, cardVars, persisted, pageVars, hasPin, inflight, session>>

\* handleSetup, around `await invoke("set_pin")`.
handleSetup ==
    \E i \in 1..Len(inflight) : \E o \in Answers(i, "handleSetup") :
        /\ Apply(o)
        /\ IF o.res.ok
           THEN /\ hasPin' = TRUE
                /\ close
           ELSE /\ pads' = [pads EXCEPT !["modal"] = RefTriggerError(@, MsgError)]
                /\ UNCHANGED <<hasPin, isPinSettingsOpen, closeTimers>>
        /\ Finish(i)
        /\ UNCHANGED <<deskVars, cardVars, pinState, accounts, isAddModalOpen, loaded, settingsMode, session>>

\* handleRemove, around `await invoke("remove_pin")`.
handleRemove ==
    \E i \in 1..Len(inflight) : \E o \in Answers(i, "handleRemove") :
        /\ Apply(o)
        /\ IF o.res.ok
           THEN /\ hasPin' = FALSE
                /\ close
           ELSE /\ pads' = [pads EXCEPT !["modal"] =
                              RefTriggerError(@, MsgCurrentPinMismatch)]
                /\ UNCHANGED <<hasPin, isPinSettingsOpen, closeTimers>>
        /\ Finish(i)
        /\ UNCHANGED <<deskVars, cardVars, pinState, accounts, isAddModalOpen, loaded, settingsMode, session>>

\* -------------------------------------------------- +page: drag and drop
\* handleDrop for a file whose name ends in ".json", up to
\* `await file.text()`.  <main> is rendered in every pinState; a modal's
\* overlay covers it.
Drop(file) ==
    /\ PageClickable
    /\ file = "backup" => disk.exists
    /\ Invoke("text", file, "handleDrop.text", pinState)
    /\ UNCHANGED <<deskVars, cardVars, persisted, pageVars, modalVars, pads, session>>

\* handleDrop after file.text(): JSON.parse, then `await save(...)`; a
\* parse error only shows a toast.
handleDropText ==
    \E i \in 1..Len(inflight) : \E o \in Answers(i, "handleDrop.text") :
        /\ Apply(o)
        /\ IF o.res.ok /\ o.res.val.json
           THEN FinishInvokeWith(i, "save", <<>>, "handleDrop.save", pinState,
                                 o.res.val.length)
           ELSE Finish(i)
        /\ UNCHANGED <<deskVars, cardVars, pageVars, modalVars, pads, session>>

\* The toast `${accounts.length} accounts loaded` of handleDrop, followed by
\* loadAccounts().
DropLoaded(i) ==
    /\ loaded' = Loaded(inflight[i].n, "handleDrop", FALSE, 0)
    /\ FinishLoadAccounts(i, pinState)

\* handleDrop after save(): with a path, `await invoke("export_backup")`.
handleDropSave ==
    \E i \in 1..Len(inflight) : \E o \in Answers(i, "handleDrop.save") :
        /\ Apply(o)
        /\ IF o.res.ok /\ o.res.val
           THEN /\ FinishInvokeWith(i, "export_backup", <<>>, "handleDrop.invoke",
                                    pinState, inflight[i].n)
                /\ UNCHANGED loaded
           ELSE IF o.res.ok THEN DropLoaded(i)
           ELSE Finish(i) /\ UNCHANGED loaded
        /\ UNCHANGED <<deskVars, cardVars, pinState, accounts, isAddModalOpen, isPinSettingsOpen, modalVars,
                       pads, session>>

\* handleDrop after export_backup.
handleDropExport ==
    \E i \in 1..Len(inflight) : \E o \in Answers(i, "handleDrop.invoke") :
        /\ Apply(o)
        /\ IF o.res.ok THEN DropLoaded(i)
           ELSE Finish(i) /\ UNCHANGED loaded
        /\ UNCHANGED <<deskVars, cardVars, pinState, accounts, isAddModalOpen, isPinSettingsOpen, modalVars,
                       pads, session>>

\* ------------------------------------------------ +page: export and import
\* The export button of the header: handleExport up to `await save(...)`.
ExportButton ==
    /\ pinState = "unlocked"
    /\ PageClickable
    /\ Invoke("save", <<>>, "handleExport.save", pinState)
    /\ UNCHANGED <<deskVars, cardVars, persisted, pageVars, modalVars, pads, session>>

handleExportSave ==
    \E i \in 1..Len(inflight) : \E o \in Answers(i, "handleExport.save") :
        /\ Apply(o)
        /\ IF o.res.ok /\ o.res.val
           THEN FinishInvoke(i, "export_backup", <<>>, "handleExport.export", pinState)
           ELSE Finish(i)
        /\ UNCHANGED <<deskVars, cardVars, pageVars, modalVars, pads, session>>

\* handleExport after export_backup: only a toast.
handleExportDone ==
    \E i \in 1..Len(inflight) : \E o \in Answers(i, "handleExport.export") :
        /\ Apply(o)
        /\ Finish(i)
        /\ UNCHANGED <<deskVars, cardVars, pageVars, modalVars, pads, session>>

\* The import button of the header: handleImport up to `await open(...)`.
ImportButtonWithin(limit) ==
    /\ pinState = "unlocked"
    /\ PageClickable
    /\ InvokeWithin(limit, "open", <<>>, "handleImport.open", pinState)
    /\ UNCHANGED <<deskVars, cardVars, persisted, pageVars, modalVars, pads, session>>

ImportButton == ImportButtonWithin(MaxInflight)

handleImportOpen ==
    \E i \in 1..Len(inflight) : \E o \in Answers(i, "handleImport.open") :
        /\ Apply(o)
        /\ IF o.res.ok /\ o.res.val
           THEN FinishInvoke(i, "import_backup", <<>>, "handleImport.import", pinState)
           ELSE Finish(i)
        /\ UNCHANGED <<deskVars, cardVars, pageVars, modalVars, pads, session>>

\* handleImport after import_backup: the toast `${importedCount} accounts
\* loaded`, then loadAccounts().
handleImportDone ==
    \E i \in 1..Len(inflight) : \E o \in Answers(i, "handleImport.import") :
        /\ Apply(o)
        /\ IF o.res.ok
           THEN /\ loaded' = Loaded(o.res.val, "handleImport", TRUE, o.res.val)
                /\ FinishLoadAccounts(i, pinState)
           ELSE Finish(i) /\ UNCHANGED loaded
        /\ UNCHANGED <<deskVars, cardVars, pinState, accounts, isAddModalOpen, isPinSettingsOpen, modalVars,
                       pads, session>>

\* --------------------------------------------------------- AddAccountModal
\* The floating "add account" button.
OpenAddModal ==
    /\ pinState = "unlocked"
    /\ PageClickable
    /\ isAddModalOpen' = TRUE
    /\ UNCHANGED <<deskVars, cardVars, persisted, pinState, accounts, isPinSettingsOpen, loaded, modalVars,
                   pads, inflight, session>>

\* closeModal: the close and cancel buttons, the backdrop, Escape, in a
\* window that is shown.
closeModal ==
    /\ isAddModalOpen /\ win.visible
    /\ isAddModalOpen' = FALSE
    /\ form' = [form EXCEPT !.errorMessage = NoError]
    /\ UNCHANGED <<win, clipboard, capture, confirm, installer, cards, cardVars, persisted, pinState, accounts,
                   isPinSettingsOpen, loaded, modalVars, pads, inflight, session>>

\* isSubmitting: the submit button is disabled while add_account is awaited.
IsSubmitting == \E i \in 1..Len(inflight) : inflight[i].k = "AddAccount.handleSubmit"

\* The form's handleSubmit with all fields filled, up to
\* `await invoke("add_account")`.
SubmitAccountWithin(limit, label, secret) ==
    /\ isAddModalOpen
    /\ ~IsSubmitting
    /\ InvokeWithin(limit, "add_account", [label |-> label, secret |-> secret],
                    "AddAccount.handleSubmit", pinState)
    /\ UNCHANGED <<deskVars, cardVars, persisted, pageVars, modalVars, pads, session>>

SubmitAccount(label, secret) == SubmitAccountWithin(MaxInflight, label, secret)

\* handleSubmit after add_account: dispatch("accountAdded") runs the page's
\* loadAccounts, then closeModal(); a failure only sets errorMessage.
accountAdded ==
    \E i \in 1..Len(inflight) : \E o \in Answers(i, "AddAccount.handleSubmit") :
        /\ Apply(o)
        /\ IF o.res.ok
           THEN /\ FinishLoadAccounts(i, pinState)
                /\ isAddModalOpen' = FALSE
           ELSE /\ Finish(i)
                /\ UNCHANGED isAddModalOpen
        /\ UNCHANGED <<deskVars, cardVars, pinState, accounts, isPinSettingsOpen, loaded, modalVars, pads,
                       session>>

\* ----------------------------------------- AddAccountModal: the form
\* What the user types into the issuer, account name and secret inputs.
IssuerTexts == {<<>>, <<" ">>, <<" ", "G", "H">>}
AccountTexts == {<<>>, <<"d", " ">>, <<"o">>}
SecretTexts == {<<>>, <<" ">>, <<"j", "b", " ", "s", "W">>, <<"J", "B", "1">>}

\* The modal is shown, in a window that is shown.
ModalClickable == isAddModalOpen /\ win.visible /\ ~form.showScreenCapture

\* What the modal's and the window's handlers leave alone.
formFrame ==
    <<clipboard, confirm, installer, cards, cardVars, pinState, accounts, isPinSettingsOpen, loaded, modalVars,
      pads, session>>

\* bind:value of an input: the field holds what the user has typed.
Input(field, text) ==
    /\ ModalClickable
    /\ form' = [form EXCEPT ![field] = text]
    /\ UNCHANGED <<persisted, isAddModalOpen, win, inflight, capture, formFrame>>

\* The inputs are `required`: the browser raises the submit event only if
\* none of them is empty.
Required(f) == f.issuer # <<>> /\ f.accountName # <<>> /\ f.secretKey # <<>>

\* handleSubmit: !issuer || !accountName || !secretKey.
FieldMissing(f) == f.issuer = <<>> \/ f.accountName = <<>> \/ f.secretKey = <<>>

\* handleSubmit: cleanSecret.
CleanSecret(secretKey) == toUpperCase(RemoveWhitespace(secretKey))

\* handleSubmit: the argument of add_account.
SubmitArg(f) ==
    [label |-> <<trim(f.issuer), trim(f.accountName)>>, secret |-> CleanSecret(f.secretKey)]

\* typeof error === "string" ? error : fallback.  The backend's errors are
\* strings.
ErrorText(err, fallback) == IF err = "" THEN fallback ELSE err

\* The submit event of the form: handleSubmit up to
\* `await invoke("add_account")`.
AddAccountSubmit ==
    /\ ModalClickable
    /\ ~form.isSubmitting
    /\ Required(form)
    /\ IF FieldMissing(form)
       THEN /\ form' = [form EXCEPT !.errorMessage = MsgFillAll]
            /\ UNCHANGED inflight
       ELSE /\ form' = [form EXCEPT !.errorMessage = NoError, !.isSubmitting = TRUE]
            /\ InvokeWithin(MaxWriters, "add_account", SubmitArg(form),
                            "AddAccount.handleSubmit", pinState)
    /\ UNCHANGED <<persisted, isAddModalOpen, win, capture, formFrame>>

\* A faulty handleSubmit: the fields are cleared whatever the answer.
ClearedAlways(f, ok) == [f EXCEPT !.issuer = <<>>, !.accountName = <<>>, !.secretKey = <<>>]

\* handleSubmit after add_account: the fields are cleared on success only.
Cleared(f, ok) ==
    IF ok THEN [f EXCEPT !.issuer = <<>>, !.accountName = <<>>, !.secretKey = <<>>]
    ELSE f

\* handleSubmit after `await invoke("add_account")`: on success the fields
\* are cleared, dispatch("accountAdded") runs the page's loadAccounts, and
\* closeModal(); on failure errorMessage is set; finally isSubmitting = false.
AddAccountSubmittedAnswer(i, o) ==
        /\ Apply(o)
        /\ IF o.res.ok
           THEN /\ form' = [Cleared(form, o.res.ok) EXCEPT !.errorMessage = NoError,
                                                           !.isSubmitting = FALSE]
                /\ FinishLoadAccounts(i, pinState)
                /\ isAddModalOpen' = FALSE
           ELSE /\ form' = [Cleared(form, o.res.ok) EXCEPT
                               !.errorMessage = ErrorText(o.res.err, MsgAddFailed),
                               !.isSubmitting = FALSE]
                /\ Finish(i)
                /\ UNCHANGED isAddModalOpen
        /\ UNCHANGED <<win, capture, formFrame>>

AddAccountSubmitted ==
    \E i \in 1..Len(inflight) : \E o \in Answers(i, "AddAccount.handleSubmit") :
        AddAccountSubmittedAnswer(i, o)

\* ------------------------------------- AddAccountModal: the QR code scan
\* restoreWindow().
restoreWindow(w) ==
    [w EXCEPT !.fullscreen = FALSE, !.alwaysOnTop = FALSE, !.decorations = TRUE,
              !.position = "center"]

\* handleQrScan, step 4: the window as the fullscreen overlay.
OverlayWindow(w) ==
    [w EXCEPT !.decorations = FALSE, !.alwaysOnTop = TRUE, !.fullscreen = TRUE,
              !.visible = TRUE]

\* The title bar's drag region: the user moves the window.
MoveWindow ==
    /\ win.visible /\ ~win.fullscreen
    /\ win' = [win EXCEPT !.position = "moved"]
    /\ UNCHANGED <<persisted, isAddModalOpen, form, inflight, capture, formFrame>>

\* A faulty scan: a failed attempt empties the fields.
FilledOrEmptied(f, res) ==
    IF res.ok
    THEN [f EXCEPT !.issuer = res.val.issuer, !.accountName = res.val.account_name,
                   !.secretKey = res.val.secret]
    ELSE [f EXCEPT !.issuer = <<>>, !.accountName = <<>>, !.secretKey = <<>>]

\* The fields after an attempt to decode and parse: those of the parsed
\* URI, or as they were.
Filled(f, res) ==
    IF res.ok
    THEN [f EXCEPT !.issuer = res.val.issuer, !.accountName = res.val.account_name,
                   !.secretKey = res.val.secret]
    ELSE f

\* The scan button: handleQrScan up to `await invoke("take_screenshot")`.
\* The window is hidden first.
handleQrScan ==
    /\ ModalClickable
    /\ ~form.isScanning
    /\ form' = [form EXCEPT !.isScanning = TRUE, !.errorMessage = NoError, !.before = win]
    /\ isAddModalOpen' = FALSE
    /\ win' = [win EXCEPT !.visible = FALSE]
    /\ InvokeWithin(MaxWriters, "take_screenshot", <<>>, "handleQrScan.take", pinState)
    /\ UNCHANGED <<persisted, capture, formFrame>>

\* handleQrScan after take_screenshot; a failure is caught at the end of
\* handleQrScan: restoreWindow(), the modal is shown with the error.
handleQrScanTaken ==
    \E i \in 1..Len(inflight) : \E o \in Answers(i, "handleQrScan.take") :
        /\ Apply(o)
        /\ IF o.res.ok
           THEN /\ FinishInvoke(i, "decode_screenshot_auto", <<>>, "handleQrScan.decode",
                                pinState)
                /\ UNCHANGED <<form, win, isAddModalOpen>>
           ELSE /\ Finish(i)
                /\ win' = restoreWindow(win)
                /\ isAddModalOpen' = TRUE
                /\ form' = [form EXCEPT
                               !.errorMessage = ErrorText(o.res.err, MsgCaptureFailed),
                               !.isScanning = FALSE]
        /\ UNCHANGED <<capture, formFrame>>

\* handleQrScan, step 4: automatic detection has failed; the window
\* becomes the fullscreen overlay and ScreenCapture is shown.
EnterManualSelection(i) ==
    /\ Finish(i)
    /\ win' = OverlayWindow(win)
    /\ form' = [form EXCEPT !.showScreenCapture = TRUE]
    /\ UNCHANGED isAddModalOpen

\* handleQrScan after decode_screenshot_auto, for request i answered by o.
QrScanDecodedAnswer(i, o) ==
        /\ Apply(o)
        /\ IF o.res.ok
           THEN /\ FinishInvoke(i, "parse_otpauth_uri", o.res.val, "handleQrScan.parse",
                                pinState)
                /\ UNCHANGED <<form, win, isAddModalOpen>>
           ELSE EnterManualSelection(i)
        /\ UNCHANGED <<capture, formFrame>>

handleQrScanDecoded ==
    \E i \in 1..Len(inflight) : \E o \in Answers(i, "handleQrScan.decode") :
        QrScanDecodedAnswer(i, o)

\* handleQrScan after parse_otpauth_uri: the fields are filled and the
\* modal is shown again, or manual selection is entered.
QrScanParsedAnswer(i, o) ==
        /\ Apply(o)
        /\ IF o.res.ok
           THEN /\ Finish(i)
                /\ form' = [Filled(form, o.res) EXCEPT !.errorMessage = NoError,
                                                       !.isScanning = FALSE]
                /\ win' = [win EXCEPT !.visible = TRUE]
                /\ isAddModalOpen' = TRUE
           ELSE EnterManualSelection(i)
        /\ UNCHANGED <<capture, formFrame>>

handleQrScanParsed ==
    \E i \in 1..Len(inflight) : \E o \in Answers(i, "handleQrScan.parse") :
        QrScanParsedAnswer(i, o)

\* {#if showScreenCapture}: the overlay is removed, and created anew by
\* the next scan; the device pixel ratio is the window's.
Removed(c) == [NoCapture EXCEPT !.dpr = c.dpr]

\* ScreenCapture: the smallest selection that is captured, and the widths
\* and heights the user drags.
MinSelection == 30
SelectionSizes == {10, 40}

\* ScreenCapture's handleMouseUp at the end of a drag; "captured" runs
\* handleCaptured up to `await invoke("decode_screenshot_region")`.
handleMouseUp(w, h) ==
    /\ form.showScreenCapture /\ win.visible
    /\ IF w < MinSelection \/ h < MinSelection
       THEN UNCHANGED <<form, inflight>>
       ELSE /\ form' = [form EXCEPT !.showScreenCapture = FALSE]
            /\ InvokeWithin(MaxWriters, "decode_screenshot_region", <<w, h>>,
                            "handleCaptured.decode", pinState)
    /\ UNCHANGED <<persisted, isAddModalOpen, win, capture, formFrame>>

\* handleCaptured's catch: the modal is shown with the error; its finally
\* block awaits restoreWindow().
CaptureFailed(i, o) ==
    /\ Finish(i)
    /\ form' = [Filled(form, o.res) EXCEPT !.errorMessage = ErrorText(o.res.err, MsgNoQr),
                                           !.awaiting = "handleCaptured"]
    /\ isAddModalOpen' = TRUE

\* handleCaptured after decode_screenshot_region, for request i answered
\* by o.
CapturedDecodedAnswer(i, o) ==
        /\ Apply(o)
        /\ IF o.res.ok
           THEN /\ FinishInvoke(i, "parse_otpauth_uri", o.res.val, "handleCaptured.parse",
                                pinState)
                /\ UNCHANGED <<form, isAddModalOpen>>
           ELSE CaptureFailed(i, o)
        /\ UNCHANGED <<win, capture, formFrame>>

handleCapturedDecoded ==
    \E i \in 1..Len(inflight) : \E o \in Answers(i, "handleCaptured.decode") :
        CapturedDecodedAnswer(i, o)

\* handleCaptured after parse_otpauth_uri.
CapturedParsedAnswer(i, o) ==
        /\ Apply(o)
        /\ IF o.res.ok
           THEN /\ Finish(i)
                /\ form' = [Filled(form, o.res) EXCEPT !.errorMessage = NoError,
                                                       !.awaiting = "handleCaptured"]
                /\ isAddModalOpen' = TRUE
           ELSE CaptureFailed(i, o)
        /\ UNCHANGED <<win, capture, formFrame>>

handleCapturedParsed ==
    \E i \in 1..Len(inflight) : \E o \in Answers(i, "handleCaptured.parse") :
        CapturedParsedAnswer(i, o)

\* Escape on the overlay.  The modal's own window listener runs
\* closeModal(); ScreenCapture's dispatches "cancelled", which runs
\* handleCaptureCancelled up to `await restoreWindow()`.
CaptureEscape ==
    /\ form.showScreenCapture /\ win.visible
    /\ isAddModalOpen' = FALSE
    /\ form' = [form EXCEPT !.errorMessage = NoError, !.showScreenCapture = FALSE,
                            !.awaiting = "handleCaptureCancelled"]
    /\ capture' = Removed(capture)
    /\ UNCHANGED <<persisted, win, inflight, formFrame>>

\* restoreWindow() returns to the handler that awaits it:
\* handleCaptureCancelled shows the modal; both end with isScanning = false.
windowRestored ==
    /\ form.awaiting # "none"
    /\ win' = restoreWindow(win)
    /\ form' = [form EXCEPT !.awaiting = "none", !.isScanning = FALSE]
    /\ isAddModalOpen' = (form.awaiting = "handleCaptureCancelled" \/ isAddModalOpen)
    /\ UNCHANGED <<persisted, inflight, capture, formFrame>>

\* The add-account modal's form on the unlocked page.
FormNext ==
    \/ OpenAddModal
    \/ closeModal
    \/ \E text \in IssuerTexts : Input("issuer", text)
    \/ \E text \in AccountTexts : Input("accountName", text)
    \/ \E text \in SecretTexts : Input("secretKey", text)
    \/ AddAccountSubmit
    \/ AddAccountSubmitted
    \/ loadAccounts
    \/ Exec

\* The add-account modal's QR code scan on the unlocked page.
ScanNext ==
    \/ OpenAddModal
    \/ closeModal
    \/ \E text \in IssuerTexts : Input("issuer", text)
    \/ \E text \in SecretTexts : Input("secretKey", text)
    \/ MoveWindow
    \/ handleQrScan
    \/ handleQrScanTaken
    \/ handleQrScanDecoded
    \/ handleQrScanParsed
    \/ \E w, h \in SelectionSizes : handleMouseUp(w, h)
    \/ handleCapturedDecoded
    \/ handleCapturedParsed
    \/ CaptureEscape
    \/ windowRestored

\* ------------------------------------------- ScreenCapture: the selection
\* clientX and clientY of the mouse events, and window.devicePixelRatio in
\* quarters (4 is a ratio of 1).
Coordinates == {0, 10, 45, 50}
PixelRatios == {4, 5, 6}

\* $: selectionLeft, selectionTop, selectionWidth, selectionHeight.
Min(a, b) == IF a < b THEN a ELSE b
Abs(a) == IF a < 0 THEN 0 - a ELSE a
selectionStart(c) == c.startX      \* faulty: where the drag began
selectionLeft(c) == Min(c.startX, c.currentX)
selectionTop(c) == Min(c.startY, c.currentY)
selectionWidth(c) == Abs(c.currentX - c.startX)
selectionHeight(c) == Abs(c.currentY - c.startY)

\* `window.devicePixelRatio || 1`, in quarters.
PixelRatio(c) == IF c.dpr = 0 THEN 4 ELSE c.dpr

\* Math.round(v * dpr) for v >= 0: halves are rounded up.
Round(v, q) == (2 * v * q + 4) \div 8

\* The detail of "captured".
CapturedDetail(c) ==
    [x |-> Round(selectionLeft(c), PixelRatio(c)),
     y |-> Round(selectionTop(c), PixelRatio(c)),
     w |-> Round(selectionWidth(c), PixelRatio(c)),
     h |-> Round(selectionHeight(c), PixelRatio(c))]

\* The window is moved to a display of another scale.
ChangeScale(q) ==
    /\ win.visible
    /\ q # capture.dpr
    /\ capture' = [capture EXCEPT !.dpr = q]
    /\ UNCHANGED <<persisted, isAddModalOpen, form, win, inflight, formFrame>>

\* ScreenCapture's handleMouseDown.
handleMouseDown(x, y) ==
    /\ form.showScreenCapture /\ win.visible
    /\ capture' = [capture EXCEPT !.isDrawing = TRUE, !.startX = x, !.startY = y,
                                  !.currentX = x, !.currentY = y]
    /\ UNCHANGED <<persisted, isAddModalOpen, form, win, inflight, formFrame>>

\* ScreenCapture's handleMouseMove.
handleMouseMove(x, y) ==
    /\ form.showScreenCapture /\ win.visible
    /\ capture' = IF ~capture.isDrawing THEN capture
                  ELSE [capture EXCEPT !.currentX = x, !.currentY = y]
    /\ UNCHANGED <<persisted, isAddModalOpen, form, win, inflight, formFrame>>

\* ScreenCapture's handleMouseUp on the selection drawn; "captured" runs
\* handleCaptured up to `await invoke("decode_screenshot_region")`, which
\* removes the overlay.
SelectionMouseUp ==
    /\ form.showScreenCapture /\ win.visible
    /\ IF ~capture.isDrawing
       THEN UNCHANGED <<capture, form, inflight>>
       ELSE IF selectionWidth(capture) < MinSelection
                 \/ selectionHeight(capture) < MinSelection
            THEN /\ capture' = [capture EXCEPT !.isDrawing = FALSE]
                 /\ UNCHANGED <<form, inflight>>
            ELSE /\ capture' = Removed(capture)
                 /\ form' = [form EXCEPT !.showScreenCapture = FALSE]
                 /\ InvokeWithin(MaxWriters, "decode_screenshot_region",
                                 CapturedDetail(capture), "handleCaptured.decode",
                                 pinState)
    /\ UNCHANGED <<persisted, isAddModalOpen, win, formFrame>>

\* The scan with the selection drawn by mouse events.
CaptureNext ==
    \/ OpenAddModal
    \/ handleQrScan
    \/ handleQrScanTaken
    \/ handleQrScanDecoded
    \/ handleQrScanParsed
    \/ \E q \in PixelRatios : ChangeScale(q)
    \/ \E x, y \in Coordinates : handleMouseDown(x, y)
    \/ \E x, y \in Coordinates : handleMouseMove(x, y)
    \/ SelectionMouseUp
    \/ handleCapturedDecoded
    \/ handleCapturedParsed
    \/ CaptureEscape
    \/ windowRestored

\* ------------------------------------------------------------- AccountCard
\* The cards exist while the page shows the account list.
HasCard(a) == pinState = "unlocked" /\ a \in accounts

\* tick() at mount or at a new 30-second step: fetchOtp up to its await.
tick(a) ==
    /\ HasCard(a)
    /\ Invoke("get_current_otp",
              [ct |-> a.encrypted_secret, nonce |-> a.secret_nonce], "fetchOtp", pinState)
    /\ UNCHANGED <<deskVars, cardVars, persisted, pageVars, modalVars, pads, session>>

\* fetchOtp after get_current_otp: sets the card's currentCode.
fetchOtp ==
    \E i \in 1..Len(inflight) : \E o \in Answers(i, "fetchOtp") :
        /\ Apply(o)
        /\ Finish(i)
        /\ UNCHANGED <<deskVars, cardVars, pageVars, modalVars, pads, session>>

\* invoke(cmd, arg) from a handler of the card of account a.
InvokeFromCard(limit, cmd, arg, k, a) ==
    /\ Cardinality(Awaited) < limit
    /\ inflight' = Append(inflight, RequestWith(cmd, arg, k, pinState, a.secret_nonce))

\* confirmDelete up to `await invoke("delete_account")`.
DeleteCardWithin(limit, a) ==
    /\ HasCard(a)
    /\ PageClickable
    /\ InvokeFromCard(limit, "delete_account", a.id, "confirmDelete", a)
    /\ UNCHANGED <<deskVars, cardVars, persisted, pageVars, modalVars, pads, session>>

DeleteCard(a) == DeleteCardWithin(MaxInflight, a)

\* saveEdit up to `await invoke("update_account")`.
EditCardWithin(limit, a, label) ==
    /\ HasCard(a)
    /\ PageClickable
    /\ InvokeFromCard(limit, "update_account", [id |-> a.id, label |-> label], "saveEdit",
                      a)
    /\ UNCHANGED <<deskVars, cardVars, persisted, pageVars, modalVars, pads, session>>

EditCard(a, label) == EditCardWithin(MaxInflight, a, label)

\* confirmDelete / saveEdit after their await: dispatch("deleted") runs
\* the page's handleDeleted, which calls loadAccounts().
handleDeleted ==
    \E i \in 1..Len(inflight) : \E k \in {"confirmDelete", "saveEdit"} :
        \E o \in Answers(i, k) :
            /\ Apply(o)
            /\ IF o.res.ok THEN FinishLoadAccounts(i, pinState) ELSE Finish(i)
            /\ UNCHANGED <<deskVars, cardVars, pageVars, modalVars, pads, session>>

\* ------------------------------------- AccountCard: the delete confirmation
\* {#if confirmingDelete}: the cancel and confirm buttons are shown, else
\* the delete and edit buttons.
ConfirmShownAlways(c) == TRUE       \* faulty: the confirm button always shown
ConfirmShown(c) == c.confirmingDelete

\* requestDelete: confirm mode, and a timer that ends it; the timer's
\* handle is not kept.
requestDelete(a) ==
    /\ HasCard(a)
    /\ PageClickable
    /\ ~ConfirmShown(confirm)
    /\ confirm' = [confirmingDelete |-> TRUE,
                   timers |-> confirm.timers \cup {now + ConfirmTimeout}]
    /\ UNCHANGED <<form, win, clipboard, capture, installer, cards, cardVars, persisted,
                   pageVars, modalVars, pads, inflight, session>>

\* The cancel button.
cancelDelete(a) ==
    /\ HasCard(a)
    /\ PageClickable
    /\ ConfirmShown(confirm)
    /\ confirm' = [confirm EXCEPT !.confirmingDelete = FALSE]
    /\ UNCHANGED <<form, win, clipboard, capture, installer, cards, cardVars, persisted,
                   pageVars, modalVars, pads, inflight, session>>

\* A timer of requestDelete fires, at its time or later.
confirmExpired ==
    \E t \in confirm.timers :
        /\ t <= now
        /\ confirm' = [confirmingDelete |-> FALSE, timers |-> confirm.timers \ {t}]
        /\ UNCHANGED <<form, win, clipboard, capture, installer, cards, cardVars,
                       persisted, pageVars, modalVars, pads, inflight, session>>

\* The confirm button: confirmDelete up to `await invoke("delete_account")`.
confirmDelete(a) ==
    /\ HasCard(a)
    /\ PageClickable
    /\ ConfirmShown(confirm)
    /\ InvokeFromCard(MaxWriters, "delete_account", a.id, "confirmDelete", a)
    /\ UNCHANGED <<deskVars, cardVars, persisted, pageVars, modalVars, pads, session>>

\* A second passes.
ConfirmAdvance ==
    /\ now < MaxConfirmNow
    /\ now' = now + 1
    /\ UNCHANGED <<deskVars, card, persisted, pageVars, modalVars, pads, inflight,
                   session>>

\* The delete buttons of the card of the one account.
ConfirmNext ==
    \/ \E a \in accounts : requestDelete(a)
    \/ \E a \in accounts : cancelDelete(a)
    \/ confirmExpired
    \/ \E a \in accounts : confirmDelete(a)
    \/ handleDeleted
    \/ loadAccounts
    \/ Exec
    \/ ConfirmAdvance

\* ------------------------------------------- AccountCard: ticks and codes
\* The account the card shows.
CardAccount == CHOOSE a \in accounts : TRUE

\* The card's get_current_otp requests in flight.
CardFetches == {i \in 1..Len(inflight) : inflight[i].k = "card.fetchOtp"}

\* fetchOtp up to `await invoke("get_current_otp")`, called by card c.
CardFetch(c) ==
    /\ Cardinality(CardFetches) < MaxFetches
    /\ c.issued[now \div Period] < MaxIssued
    /\ inflight' = Append(inflight,
                          Request("get_current_otp",
                                  [ct |-> CardAccount.encrypted_secret,
                                   nonce |-> CardAccount.secret_nonce],
                                  "card.fetchOtp", pinState))
    /\ card' = [c EXCEPT !.issued[now \div Period] = @ + 1]

\* A faulty tick: remainingSeconds counts from 29 down to 0.
TickRemainingFromZero(t) == (Period - 1) - (t % Period)

\* A faulty tick: the seconds elapsed in the step instead of those remaining.
TickRemainingElapsed(t) == t % Period

\* tick(): remainingSeconds = 30 - (now % 30).
TickRemaining(t) == Period - (t % Period)

\* tick(): currentTimeStep = Math.floor(now / 30).
TickStep(t) == t \div Period

\* A faulty tick: fetchOtp on every tick.
StepChangedAlways(c, t) == TRUE

\* tick(): currentTimeStep !== lastTimeStep.
StepChanged(c, t) == TickStep(t) # c.lastTimeStep

\* tick() of the card: the card's variables after it, before fetchOtp.
Ticked(c) ==
    [c EXCEPT !.remainingSeconds = TickRemaining(now),
              !.lastTimeStep = IF StepChanged(c, now) THEN TickStep(now) ELSE @]

\* The setInterval callback of the countdown variant, before fetchOtp.
CountedDown(c) == [c EXCEPT !.remainingSeconds = @ - 1]

\* onMount: the tick variant calls tick(), the countdown variant calls
\* fetchOtp(); both start the 1-second interval.
CardMount ==
    /\ HasCard(CardAccount)
    /\ ~card.mounted
    /\ LET c == [card EXCEPT !.mounted = TRUE, !.mountedAt = now \div Period]
       IN IF c.variant = "tick"
          THEN IF StepChanged(c, now) THEN CardFetch(Ticked(c))
               ELSE card' = Ticked(c) /\ UNCHANGED inflight
          ELSE CardFetch(c)
    /\ UNCHANGED <<deskVars, persisted, pageVars, modalVars, pads, session, now>>

\* A second passes.  The interval's callback becomes due; a callback that
\* was still due has been missed (a throttled or suspended window).
Advance ==
    /\ now < MaxNow
    /\ now' = now + 1
    /\ card' = [card EXCEPT !.due = card.mounted]
    /\ UNCHANGED <<deskVars, persisted, pageVars, modalVars, pads, inflight, session>>

\* The setInterval callback: tick() in the tick variant, the countdown
\* step in the countdown variant.
CardTick ==
    /\ card.mounted /\ card.due
    /\ LET c == [card EXCEPT !.due = FALSE]
       IN IF c.variant = "tick"
          THEN IF StepChanged(c, now) THEN CardFetch(Ticked(c))
               ELSE card' = Ticked(c) /\ UNCHANGED inflight
          ELSE IF CountedDown(c).remainingSeconds <= 0 THEN CardFetch(CountedDown(c))
               ELSE card' = CountedDown(c) /\ UNCHANGED inflight
    /\ UNCHANGED <<deskVars, persisted, pageVars, modalVars, pads, session, now>>

\* fetchOtp after its await: the code is shown; the countdown variant also
\* takes remaining_seconds from the response; a failure shows the error
\* code and changes nothing else.
CardFetchedAnswer(i, o) ==
        /\ Apply(o)
        /\ card' = IF ~o.res.ok THEN [card EXCEPT !.currentCode = ErrorCode]
                   ELSE IF card.variant = "tick"
                        THEN [card EXCEPT !.currentCode = o.res.val.code]
                   ELSE [card EXCEPT !.currentCode = o.res.val.code,
                                     !.remainingSeconds = o.res.val.remaining_seconds]
        /\ Finish(i)
        /\ UNCHANGED <<deskVars, pageVars, modalVars, pads, session, now>>

CardFetched ==
    \E i \in 1..Len(inflight) : \E o \in Answers(i, "card.fetchOtp") :
        CardFetchedAnswer(i, o)

\* A faulty copyToClipboard: whatever the card shows is copied.
CopyableAlways(code) == TRUE

\* copyToClipboard: nothing is copied while the card shows the placeholder
\* or the error code.
Copyable(code) == code # NoCode /\ code # ErrorCode

\* A click on the code: copyToClipboard.  navigator.clipboard.writeText
\* writes the code shown, or is refused.
copyToClipboard ==
    /\ card.mounted
    /\ IF Copyable(card.currentCode)
       THEN clipboard' \in {card.currentCode, clipboard}
       ELSE UNCHANGED clipboard
    /\ UNCHANGED <<form, win, cards, capture, confirm, installer, cardVars, persisted,
                   pageVars, modalVars, pads, inflight, session>>

\* The unlocked page holding the installed account: the PIN has been set
\* on the setup PinPad and loadAccounts has returned.  Its card is of the
\* given variant.
InitCardOf(v) ==
    /\ verifier = StoreVerifier(NoVerifier, <<1, 1, 1, 1>>, 1)
    /\ masterKey = InstallKey
    /\ store = {Row(1, <<GitHub, dev>>, Encrypt(Jbsw, InstallKey, 1), 1)}
    /\ nextId = 2
    /\ disk = [exists |-> FALSE, doc |-> {}]
    /\ pinState = "unlocked"
    /\ accounts = store
    /\ isAddModalOpen = FALSE
    /\ isPinSettingsOpen = FALSE
    /\ loaded = NoLoaded
    /\ settingsMode = "select"
    /\ hasPin = FALSE
    /\ closeTimers = 0
    /\ pads = [id \in {"page", "modal"} |-> NoPad]
    /\ inflight = <<>>
    /\ hist = [lastSetPin |-> <<1, 1, 1, 1>>, sets |-> 1, pinRemoved |-> FALSE]
    /\ session = [pinAtLaunch |-> FALSE, verified |-> FALSE, afterRemove |-> FALSE]
    /\ now \in StartTimes
    /\ card = [NoCard EXCEPT !.variant = v]
    /\ form = NoForm
    /\ win = InitWindow
    /\ clipboard = <<>>
    /\ capture = NoCapture
    /\ confirm = NoConfirm
    /\ installer = NoInstaller
    /\ cards = NoCards

InitCard == InitCardOf("tick")

InitCountdown == InitCardOf("countdown")

\* One card: its mount, the clock, its interval and its requests.
CardNext ==
    \/ CardMount
    \/ Advance
    \/ CardTick
    \/ Exec
    \/ CardFetched

\* The card with the tick loop.
SpecCard == InitCard /\ [][CardNext]_vars

\* The card with the local countdown.
SpecCountdown == InitCountdown /\ [][CardNext]_vars

\* The card with the tick loop, and the clipboard.
SpecCopy == InitCard /\ [][CardNext \/ copyToClipboard]_vars

\* -------------------------------------------- AccountCard: several cards
\* The account with the given id in the list.
AccountOf(id) == CHOOSE a \in accounts : a.id = id

\* fetchOtp up to its await, called by the card of account id in state c.
ListFetch(id, c) ==
    /\ Len(inflight) < MaxListInflight
    /\ inflight' = Append(inflight,
                          RequestWith("get_current_otp",
                                      [ct |-> AccountOf(id).encrypted_secret,
                                       nonce |-> AccountOf(id).secret_nonce],
                                      "list.fetchOtp", pinState, id))
    /\ cards' = [cards EXCEPT ![id] = c]

\* tick() of the card of account id in state c.
ListTicked(id, c) ==
    IF StepChanged(c, now) THEN ListFetch(id, Ticked(c))
    ELSE cards' = [cards EXCEPT ![id] = Ticked(c)] /\ UNCHANGED inflight

\* onMount of the card of account id: tick(), and the interval starts.
ListMount(id) ==
    /\ \E a \in accounts : a.id = id /\ HasCard(a)
    /\ ~cards[id].mounted
    /\ ListTicked(id, [cards[id] EXCEPT !.mounted = TRUE])
    /\ UNCHANGED <<form, win, clipboard, capture, confirm, installer, card, persisted, pageVars, modalVars, pads,
                   session, now>>

\* A second passes: the callback of every interval becomes due.
ListAdvance ==
    /\ now < MaxListNow
    /\ now' = now + 1
    /\ cards' = [id \in 1..MaxAccounts |-> [cards[id] EXCEPT !.due = cards[id].mounted]]
    /\ UNCHANGED <<form, win, clipboard, capture, confirm, installer, card, persisted, pageVars, modalVars, pads,
                   inflight, session>>

\* The setInterval callback of the card of account id: tick().
ListTick(id) ==
    /\ cards[id].mounted /\ cards[id].due
    /\ ListTicked(id, [cards[id] EXCEPT !.due = FALSE])
    /\ UNCHANGED <<form, win, clipboard, capture, confirm, installer, card, persisted, pageVars, modalVars, pads,
                   session, now>>

\* fetchOtp of the card of account id after its await.  The assignment of
\* a card destroyed in between is to a component no longer shown.
ListFetched(id) ==
    \E i \in 1..Len(inflight) : \E o \in Answers(i, "list.fetchOtp") :
        /\ inflight[i].n = id
        /\ Apply(o)
        /\ cards' = IF ~cards[id].mounted THEN cards
                    ELSE [cards EXCEPT ![id].currentCode =
                            IF o.res.ok THEN o.res.val.code ELSE ErrorCode]
        /\ Finish(i)
        /\ UNCHANGED <<form, win, clipboard, capture, confirm, installer, card, pageVars, modalVars, pads, session,
                       now>>

\* The unlocked page showing two accounts, one second before a new
\* 30-second step.
InitList ==
    /\ verifier = StoreVerifier(NoVerifier, <<1, 1, 1, 1>>, 1)
    /\ masterKey = InstallKey
    /\ store = {Row(1, <<GitHub, dev>>, Encrypt(Jbsw, InstallKey, 1), 1),
                Row(2, <<GitHub, ops>>, Encrypt(Jbsw, InstallKey, 2), 2)}
    /\ nextId = 3
    /\ disk = [exists |-> FALSE, doc |-> {}]
    /\ pinState = "unlocked"
    /\ accounts = store
    /\ isAddModalOpen = FALSE
    /\ isPinSettingsOpen = FALSE
    /\ loaded = NoLoaded
    /\ settingsMode = "select"
    /\ hasPin = FALSE
    /\ closeTimers = 0
    /\ pads = [id \in {"page", "modal"} |-> NoPad]
    /\ inflight = <<>>
    /\ hist = [lastSetPin |-> <<1, 1, 1, 1>>, sets |-> 1, pinRemoved |-> FALSE]
    /\ session = [pinAtLaunch |-> FALSE, verified |-> FALSE, afterRemove |-> FALSE]
    /\ now = MaxListNow - 1
    /\ card = NoCard
    /\ form = NoForm
    /\ win = InitWindow
    /\ clipboard = <<>>
    /\ capture = NoCapture
    /\ confirm = NoConfirm
    /\ installer = NoInstaller
    /\ cards = NoCards

\* The cards of the list, the clock, and the deletion of an account.
ListNext ==
    \/ \E id \in 1..MaxAccounts : ListMount(id)
    \/ ListAdvance
    \/ \E id \in 1..MaxAccounts : ListTick(id)
    \/ \E id \in 1..MaxAccounts : ListFetched(id)
    \/ \E a \in accounts : DeleteCardWithin(MaxListInflight, a)
    \/ handleDeleted
    \/ loadAccounts
    \/ Exec

SpecList == InitList /\ [][ListNext]_vars

\* ------------------------------------------- the account list's writers
\* The unlocked page holding one account, with the backup file of that
\* account on disk.
InitWriters ==
    /\ verifier = StoreVerifier(NoVerifier, <<1, 1, 1, 1>>, 1)
    /\ masterKey = InstallKey
    /\ store = {Row(1, <<GitHub, dev>>, Encrypt(Jbsw, InstallKey, 1), 1)}
    /\ nextId = 2
    /\ disk = [exists |-> TRUE,
               doc |-> <<[issuer |-> GitHub, account_name |-> dev,
                          secret |-> Jbsw]>>]
    /\ pinState = "unlocked"
    /\ accounts = store
    /\ isAddModalOpen = FALSE
    /\ isPinSettingsOpen = FALSE
    /\ loaded = NoLoaded
    /\ settingsMode = "select"
    /\ hasPin = FALSE
    /\ closeTimers = 0
    /\ pads = [id \in {"page", "modal"} |-> NoPad]
    /\ inflight = <<>>
    /\ hist = [lastSetPin |-> <<1, 1, 1, 1>>, sets |-> 1, pinRemoved |-> FALSE]
    /\ session = [pinAtLaunch |-> FALSE, verified |-> FALSE, afterRemove |-> FALSE]
    /\ now = 0
    /\ card = NoCard
    /\ form = NoForm
    /\ win = InitWindow
    /\ clipboard = <<>>
    /\ capture = NoCapture
    /\ confirm = NoConfirm
    /\ installer = NoInstaller
    /\ cards = NoCards

\* The add modal, card edit, card delete and import, with up to MaxWriters
\* of their requests awaited at the same time.
WritersNext ==
    \/ OpenAddModal
    \/ closeModal
    \/ \E l \in Labels, x \in Secrets : SubmitAccountWithin(MaxWriters, l, x)
    \/ accountAdded
    \/ \E a \in accounts : DeleteCardWithin(MaxWriters, a)
    \/ \E a \in accounts, l \in Labels : EditCardWithin(MaxWriters, a, l)
    \/ handleDeleted
    \/ ImportButtonWithin(MaxWriters)
    \/ handleImportOpen
    \/ handleImportDone
    \/ loadAccounts
    \/ Exec

SpecWriters == InitWriters /\ [][WritersNext]_vars

\* The add-account modal on the unlocked page holding one account: its
\* form, and its scan.
SpecForm == InitWriters /\ [][FormNext]_vars

SpecScan == InitWriters /\ [][ScanNext]_vars

\* ------------------------------------------------------------- installer
installerFrame ==
    <<form, win, clipboard, capture, confirm, cards, cardVars, persisted, pageVars,
      modalVars, pads, inflight, session>>

\* The installer's backend commands, by their outcomes.
get_default_install_path ==
    {[ok |-> TRUE, val |-> DefaultPath], [ok |-> TRUE, val |-> Empty],
     [ok |-> FALSE, val |-> Empty]}

check_latest_version ==
    {[ok |-> TRUE, download_url |-> Url], [ok |-> TRUE, download_url |-> Empty],
     [ok |-> FALSE, download_url |-> Empty]}

\* init() up to `await invoke('get_default_install_path')`; d is the
\* disabled attribute of the install button in the page's markup, and
\* scaled the outcome of `await appWindow.scaleFactor()`.
init(d, scaled) ==
    /\ installer.stage = "none"
    /\ installer' = [installer EXCEPT !.stage = IF scaled THEN "path" ELSE "failed",
                                      !.disabled = d]
    /\ UNCHANGED installerFrame

\* init() after get_default_install_path, up to
\* `await invoke('check_latest_version')`.
initDefaultPath ==
    \E r \in get_default_install_path :
        /\ installer.stage = "path" /\ ~installer.closed
        /\ installer' = [installer EXCEPT
                            !.selectedPath = IF r.ok THEN r.val ELSE FallbackPath,
                            !.stage = "version"]
        /\ UNCHANGED installerFrame

\* init() after check_latest_version: the button is enabled on success,
\* and the listeners are added.
initVersion ==
    \E r \in check_latest_version :
        /\ installer.stage = "version" /\ ~installer.closed
        /\ installer' = [installer EXCEPT
                            !.info = r,
                            !.downloadUrl = IF r.ok THEN r.download_url ELSE @,
                            !.disabled = IF r.ok THEN FALSE ELSE @,
                            !.runListener = TRUE,
                            !.stage = "ready"]
        /\ UNCHANGED installerFrame

\* A click on the folder button: its listener up to `await open(...)`.
selectFolder ==
    /\ installer.stage = "ready" /\ ~installer.closed
    /\ installer.pointerEvents = "auto"
    /\ installer.dialogs < MaxDialogs
    /\ installer' = [installer EXCEPT !.dialogs = @ + 1]
    /\ UNCHANGED installerFrame

\* The folder dialog returns the selection, or null.
folderSelected(selected) ==
    /\ installer.dialogs > 0 /\ ~installer.closed
    /\ installer' = [installer EXCEPT
                        !.dialogs = @ - 1,
                        !.selectedPath = IF selected # Empty THEN selected ELSE @]
    /\ UNCHANGED installerFrame

\* A faulty runInstall: no check of its arguments.
CanInstallAlways(path, url) == TRUE

\* runInstall's first line: `if (!selectedPath || !downloadUrl) return;`.
CanInstall(path, url) == path # Empty /\ url # Empty

\* runInstall up to `await invoke('run_install')`.
runInstall(s) ==
    IF ~CanInstall(s.selectedPath, s.downloadUrl) THEN s
    ELSE [s EXCEPT !.disabled = TRUE, !.pointerEvents = "none",
                   !.running = Append(@, [installPath |-> s.selectedPath,
                                          downloadUrl |-> s.downloadUrl])]

\* A click on the install button, which is not disabled: its listeners run
\* in the order they were added.
installClick ==
    /\ installer.stage = "ready" /\ ~installer.closed
    /\ ~installer.disabled
    /\ Len(installer.running) < MaxInstalls
    /\ LET ran == IF installer.runListener THEN runInstall(installer) ELSE installer
       IN installer' = IF installer.closeListener THEN [ran EXCEPT !.closed = TRUE]
                       ELSE ran
    /\ UNCHANGED installerFrame

\* runInstall after run_install.
installed(i, ok) ==
    /\ i \in 1..Len(installer.running) /\ ~installer.closed
    /\ installer' =
          IF ok
          THEN [installer EXCEPT !.running = RemoveAt(@, i), !.disabled = FALSE,
                                 !.runListener = FALSE, !.closeListener = TRUE]
          ELSE [installer EXCEPT !.running = RemoveAt(@, i), !.disabled = FALSE,
                                 !.pointerEvents = "auto"]
    /\ UNCHANGED installerFrame

\* The title bar's close button.
closeWindow ==
    /\ installer.stage # "none" /\ ~installer.closed
    /\ installer' = [installer EXCEPT !.closed = TRUE]
    /\ UNCHANGED installerFrame

InstallerNext ==
    \/ \E d, scaled \in BOOLEAN : init(d, scaled)
    \/ initDefaultPath
    \/ initVersion
    \/ selectFolder
    \/ \E selected \in {Empty, ChosenPath, OtherPath} : folderSelected(selected)
    \/ installClick
    \/ \E i \in 1..MaxInstalls, ok \in BOOLEAN : installed(i, ok)
    \/ closeWindow

SpecInstaller == InitWriters /\ [][InstallerNext]_vars

SpecConfirm == InitWriters /\ [][ConfirmNext]_vars

SpecCapture == InitWriters /\ [][CaptureNext]_vars

\* The scan with its scheduling: every awaited call returns and its handler
\* resumes, and the user does not leave the selection overlay open for
\* ever.
SpecScanFair ==
    /\ SpecScan
    /\ WF_vars(handleQrScanTaken)
    /\ WF_vars(handleQrScanDecoded)
    /\ WF_vars(handleQrScanParsed)
    /\ WF_vars(handleCapturedDecoded)
    /\ WF_vars(handleCapturedParsed)
    /\ WF_vars(CaptureEscape)
    /\ WF_vars(windowRestored)

\* ----------------------------------------------------- backend, called directly
\* A command called with the given argument, outside any page.
Call(cmd, arg) ==
    /\ \E o \in Outcomes(Request(cmd, arg, "call", "none")) : Apply(o)
    /\ UNCHANGED <<deskVars, cardVars, pageVars, modalVars, pads, inflight, session>>

\* A PIN that is not four digits.
ShortPin == <<1, 1, 1>>

\* Any sequence of commands.
BackendNext ==
    \/ Call("has_pin", <<>>)
    \/ \E p \in Pins \cup {ShortPin} : Call("set_pin", p)
    \/ \E p \in Pins : Call("verify_pin", p)
    \/ \E p \in Pins : Call("remove_pin", p)
    \/ Call("get_accounts", <<>>)
    \/ \E l \in Labels, x \in Secrets : Call("add_account", [label |-> l, secret |-> x])
    \/ \E a \in store, l \in Labels : Call("update_account", [id |-> a.id, label |-> l])
    \/ \E a \in store : Call("delete_account", a.id)
    \/ \E a \in store :
          Call("get_current_otp", [ct |-> a.encrypted_secret, nonce |-> a.secret_nonce])
    \/ Call("export_backup", <<>>)
    \/ Call("import_backup", <<>>)

SpecBackend == Init /\ [][BackendNext]_vars

\* ------------------------------------------------------------------- Next
\* The page's PIN gate.
GateNext ==
    \/ LockButton
    \/ Restart
    \/ initializePinState
    \/ \E d \in Digits : KeyDigit("page", d)
    \/ KeyBackspace("page")
    \/ ResetButton("page")
    \/ SubmitTimer("page")
    \/ Exec
    \/ ExecOrphan
    \/ handlePinSubmit
    \/ handlePinSetup
    \/ loadAccounts

SpecGate == InitInstalled /\ [][GateNext]_vars

\* The PIN settings modal.
SettingsNext ==
    \/ \E d \in Digits : KeyDigit("modal", d)
    \/ KeyBackspace("modal")
    \/ ResetButton("modal")
    \/ SubmitTimer("modal")
    \/ OpenSettings
    \/ checkPinStatus
    \/ \E m \in {"setup", "remove"} : SelectMode(m)
    \/ Back
    \/ CloseButton
    \/ CloseTimer
    \/ handleSetup
    \/ handleRemove

\* The page with the PIN gate and the PIN settings modal.
Next == GateNext \/ SettingsNext

Spec == InitInstalled /\ [][Next]_vars

\* The account list, backup and drag and drop.
AccountsNext ==
    \/ \E f \in Files : Drop(f)
    \/ handleDropText
    \/ handleDropSave
    \/ handleDropExport
    \/ ExportButton
    \/ handleExportSave
    \/ handleExportDone
    \/ ImportButton
    \/ handleImportOpen
    \/ handleImportDone
    \/ OpenAddModal
    \/ closeModal
    \/ \E l \in Labels, x \in Secrets : SubmitAccount(l, x)
    \/ accountAdded
    \/ \E a \in accounts : tick(a)
    \/ fetchOtp
    \/ \E a \in accounts : DeleteCard(a)
    \/ \E a \in accounts, l \in Labels : EditCard(a, l)
    \/ handleDeleted

\* The PIN gate with the PIN typed without corrections: Backspace and the
\* reset button change the PinPad's entry only, and are exercised by
\* SpecGate and SpecPinPad.
VaultGate ==
    \/ LockButton
    \/ Restart
    \/ initializePinState
    \/ \E d \in Digits : KeyDigit("page", d)
    \/ SubmitTimer("page")
    \/ Exec
    \/ ExecOrphan
    \/ handlePinSubmit
    \/ handlePinSetup
    \/ loadAccounts

\* The page with the PIN gate, the account list, backup and drag and drop.
VaultNext == VaultGate \/ AccountsNext

SpecVault == Init /\ [][VaultNext]_vars

\* The application started with the given PIN set.
LaunchWithPin(pin, salt) ==
    /\ verifier = StoreVerifier(NoVerifier, pin, salt)
    /\ masterKey = InstallKey
    /\ store = {}
    /\ nextId = 1
    /\ disk = [exists |-> FALSE, doc |-> {}]
    /\ pinState = "loading"
    /\ accounts = {}
    /\ isAddModalOpen = FALSE
    /\ isPinSettingsOpen = FALSE
    /\ loaded = NoLoaded
    /\ settingsMode = "select"
    /\ hasPin = FALSE
    /\ closeTimers = 0
    /\ pads = [id \in {"page", "modal"} |-> NoPad]
    /\ inflight = <<Request("has_pin", <<>>, "initializePinState", "loading")>>
    /\ hist = [lastSetPin |-> pin, sets |-> 1, pinRemoved |-> FALSE]
    /\ session = [pinAtLaunch |-> TRUE, verified |-> FALSE, afterRemove |-> FALSE]
    /\ now = 0
    /\ card = NoCard
    /\ form = NoForm
    /\ win = InitWindow
    /\ clipboard = <<>>
    /\ capture = NoCapture
    /\ confirm = NoConfirm
    /\ installer = NoInstaller
    /\ cards = NoCards

\* An installation without a PIN, or with the PIN 0909.
InitPinPad == Launch({}) \/ LaunchWithPin(<<0, 9, 0, 9>>, 1)

\* The page's PinPad under every key of Keys, in setup mode (no PIN set, or
\* has_pin failed) and in verify mode (a PIN set).
PinPadNext ==
    \/ initializePinState
    \/ \E key \in Keys : handleKeydown("page", key)
    \/ ResetButton("page")
    \/ SubmitTimer("page")
    \/ handlePinSubmit
    \/ handlePinSetup
    \/ loadAccounts

SpecPinPad == InitPinPad /\ [][PinPadNext]_vars

\* ----------------------------------------------------------------- claims
\* The requests in flight that the page invoked with one of cmds.
Invoked(cmds) == {i \in 1..Len(inflight) : inflight[i].cmd \in cmds}

\* C1: when a PinVerifier was persisted at launch, whatever has_pin
\* answered (true or an error), pinState is "unlocked" only after a
\* verify_pin of this session returned true.
C1_UnlockedOnlyAfterVerify ==
    (session.pinAtLaunch /\ pinState = "unlocked") => session.verified

\* C2: pinState changes only loading -> needs_setup, loading -> locked,
\* needs_setup -> unlocked and locked -> unlocked; in particular "unlocked"
\* is left by no event; the only other change is a page reload (lock button
\* or restart), which starts again at "loading" with an empty account list.
PinStateMoves ==
    {<<"loading", "needs_setup">>, <<"loading", "locked">>,
     <<"needs_setup", "unlocked">>, <<"locked", "unlocked">>}

C2_PinStateMoves ==
    [][pinState' # pinState =>
          \/ <<pinState, pinState'>> \in PinStateMoves
          \/ (LockButton \/ Restart) /\ pinState' = "loading" /\ accounts' = {}]_vars

\* C2 witness: the page was locked, was unlocked by a PIN, and holds the
\* account list.
C2_Witness == pinState = "unlocked" /\ session.verified /\ accounts # {}

\* C3: get_accounts, add_account, update_account, delete_account and
\* get_current_otp are invoked only while pinState is "unlocked", and the
\* page's account list is empty whenever pinState is not "unlocked".
AccountCommands ==
    {"get_accounts", "add_account", "update_account", "delete_account",
     "get_current_otp"}

C3_AccountCommandsOnlyUnlocked ==
    /\ \A i \in Invoked(AccountCommands) : inflight[i].at = "unlocked"
    /\ pinState # "unlocked" => accounts = {}

\* C3 witness: a card of the unlocked page asks for its code.
C3_Witness ==
    /\ pinState = "unlocked" /\ accounts # {}
    /\ Invoked({"get_current_otp"}) # {}

\* C4: export_backup and import_backup are invoked only while pinState is
\* "unlocked", whichever entry point starts them (export button, import
\* button, a file dropped on the page).
C4_BackupOnlyUnlocked ==
    \A i \in Invoked({"export_backup", "import_backup"}) : inflight[i].at = "unlocked"

\* C5: a .json file dropped on the page is restored: handleDrop invokes
\* import_backup and never export_backup, so it writes no file.
DropSteps == {"handleDrop.text", "handleDrop.save", "handleDrop.invoke"}

C5_DropNeverExports ==
    \A i \in Invoked({"export_backup"}) : inflight[i].k \notin DropSteps

\* C6: whenever the page reports "N accounts loaded" (after the import
\* button or after a dropped .json file), import_backup has returned to
\* that handler and N is the count it returned.
C6_LoadedCountIsImported ==
    loaded.shown => (loaded.called /\ loaded.n = loaded.imported)

\* C7: after a successful remove_pin the next launch requires no PIN: once
\* has_pin has answered, the page is "unlocked" without showing a PinPad.
C7_NoPinAfterRemove ==
    (session.afterRemove /\ pinState # "loading") => pinState = "unlocked"

\* C8: verify_pin(p) answers true exactly if p is the PIN of the most
\* recent successful set_pin, whatever set_pin calls came before.
C8_VerifyIffLastSetPin ==
    \A p \in Pins : \A o \in verify_pin(p) :
        o.res.ok => (o.res.val <=> p = hist.lastSetPin)

\* C8 witness: the PIN has been set twice, and the second PIN, which
\* differs from the first, is the one verify_pin accepts.
C8_Witness ==
    /\ hist.sets = 2 /\ hist.lastSetPin = <<1, 1, 1, 2>>
    /\ \E o \in verify_pin(<<1, 1, 1, 2>>) : o.res.ok /\ o.res.val
    /\ \E o \in verify_pin(<<1, 1, 1, 1>>) : o.res.ok /\ ~o.res.val

\* A step of handlePinSubmit that receives the answer false.
FalseAnswer(i, o) == o.res.ok /\ ~o.res.val /\ PinSubmitAnswer(i, o)

\* What C9 says of the PinPad: the mismatch message, the entry cleared.
ShowsMismatch(p) == p.mounted /\ p.errorMsg = MsgPinMismatch /\ p.pin = <<>>

\* C9 as written: when verify_pin returns false, pinState stays "locked",
\* get_accounts is not invoked, the account list stays empty, and the
\* PinPad shows the mismatch message with the entry cleared.
C9_FalseKeepsLocked ==
    [][\A i \in 1..Len(inflight) : \A o \in Answers(i, "handlePinSubmit") :
          FalseAnswer(i, o) =>
              /\ pinState' = "locked"
              /\ Invoked({"get_accounts"})' = {}
              /\ accounts' = {}
              /\ ShowsMismatch(pads["page"]')]_vars

\* C9 amended: when verify_pin returns false, handlePinSubmit leaves
\* pinState and the account list as they are and invokes nothing; if the
\* page is still locked, it stays locked with an empty account list and
\* its PinPad shows the mismatch message with the entry cleared.
C9_FalseChangesNothing ==
    [][\A i \in 1..Len(inflight) : \A o \in Answers(i, "handlePinSubmit") :
          FalseAnswer(i, o) =>
              /\ pinState' = pinState
              /\ accounts' = accounts
              /\ inflight' = RemoveAt(inflight, i)
              /\ pinState = "locked" =>
                    /\ accounts' = {}
                    /\ Invoked({"get_accounts"})' = {}
                    /\ ShowsMismatch(pads["page"]')]_vars

\* C9 witness: the locked page after a wrong PIN.
C9_Witness == pinState = "locked" /\ ShowsMismatch(pads["page"])

\* C10: set_pin and remove_pin, successful or failed, leave the accounts
\* table with every encrypted_secret and secret_nonce as it is, and every
\* account still yields a code from get_current_otp.
C10_PinLeavesAccounts ==
    \A p \in Pins : \A o \in set_pin(p) \cup remove_pin(p) :
        /\ o.vault.store = store
        /\ AllYieldCodes(o.vault)

\* C10 witness: with an account stored, the PIN has been set, changed and
\* removed.
C10_Witness == store # {} /\ hist.sets = 2 /\ hist.pinRemoved

\* The PIN commands in flight.
PinCommands == {"set_pin", "verify_pin", "remove_pin"}

\* C11: every PIN the PinPad emits in a 'submit' or 'setup' event, and so
\* every PIN passed to set_pin, verify_pin and remove_pin, is exactly four
\* decimal digits, whatever digit keys, other keys, Backspace presses and
\* delayed-submit timers came before.
C11_EmittedPinIsFourDigits ==
    /\ \A i \in Invoked(PinCommands) : IsValidPin(inflight[i].arg)
    /\ \A id \in {"page", "modal"} :
          (pads[id].timers > 0 /\ SubmitEvent(pads[id]) # "none") => IsValidPin(pads[id].pin)

\* C11 witness: a PIN has been entered, confirmed and passed to set_pin.
C11_Witness ==
    /\ Invoked({"set_pin"}) # {}
    /\ pads["page"].isConfirming /\ pads["page"].pin = <<0, 9, 0, 9>>

\* A step that sends a get_current_otp request.
FetchSent ==
    /\ Len(inflight') = Len(inflight) + 1
    /\ inflight'[Len(inflight')].cmd = "get_current_otp"

\* C12: the card with the tick loop requests get_current_otp exactly at
\* mount and on each tick whose floor(now / 30) differs from the last step
\* seen, never on a tick in the same step, so it sends at most one request
\* in each 30-second step.
C12_FetchOncePerStep ==
    [][card.variant = "tick" =>
          /\ FetchSent <=> (CardMount \/ (CardTick /\ now \div 30 # card.lastTimeStep))
          /\ \A st \in Steps : card'.issued[st] <= 1]_vars

\* C12 witness: the card was mounted in one step, has crossed into the
\* next, has sent one request in each, and has ticked again since.
C12_Witness ==
    /\ card.variant = "tick" /\ card.mounted
    /\ card.issued[0] = 1 /\ card.issued[1] = 1
    /\ card.lastTimeStep = 1 /\ card.remainingSeconds = 1

\* C13: the countdown card has at most one get_current_otp request in
\* flight, and after the request of its mount it sends at most one request
\* in each 30-second step, whatever the delay of the response and whether
\* or not the request fails.
C13_CountdownOnePerBoundary ==
    card.variant = "countdown" =>
        /\ Cardinality(CardFetches) <= 1
        /\ \A st \in Steps : st # card.mountedAt => card.issued[st] <= 1

\* C14: after every tick of the card, the time step used is
\* floor(now / 30) and remainingSeconds is 30 - (now mod 30).
C14_TickFollowsClock ==
    [][(card.variant = "tick" /\ (CardTick \/ CardMount)) =>
          /\ card'.lastTimeStep = now \div 30
          /\ card'.remainingSeconds = 30 - (now % 30)]_vars

\* C14 witness: a tick at the first second of the second 30-second step.
C14_Witness ==
    /\ card.variant = "tick" /\ now = 30 /\ ~card.due
    /\ card.lastTimeStep = 1 /\ card.remainingSeconds = 30

\* The codes get_current_otp answers for the card's account at time t.
CodesAt(t) ==
    {current_code(a.encrypted_secret, a.secret_nonce, masterKey, t) : a \in accounts}

\* C15 as written: the remaining seconds produced for an account lie in
\* [0, 30), and two computations in the same 30-second window give the
\* same code.
C15_RemainingBelowThirty ==
    /\ (card.mounted /\ card.variant = "tick") => card.remainingSeconds \in 0..29
    /\ \A x \in CodesAt(now) : x.remaining_seconds \in 0..29
    /\ \A t \in 0..MaxNow :
          t \div 30 = now \div 30 => {x.code : x \in CodesAt(t)} = {x.code : x \in CodesAt(now)}

\* C15 amended: the remaining seconds produced for an account lie in
\* 1..30 (30 at the first second of a window), and two computations in the
\* same 30-second window give the same code.
C15_RemainingOneToThirty ==
    /\ (card.mounted /\ card.variant = "tick") => card.remainingSeconds \in 1..30
    /\ \A x \in CodesAt(now) : x.remaining_seconds \in 1..30
    /\ \A t \in 0..MaxNow :
          t \div 30 = now \div 30 => {x.code : x \in CodesAt(t)} = {x.code : x \in CodesAt(now)}

\* C15 witness: the card shows 30 seconds and the code of the window that
\* has just begun.
C15_Witness ==
    /\ card.variant = "tick" /\ now = 30 /\ card.remainingSeconds = 30
    /\ \E x \in CodesAt(30) : card.currentCode = x.code

\* C16: the countdown card's remainingSeconds stays within 0..30, also
\* while a request is pending and after a request has failed.
C16_CountdownInRange ==
    card.variant = "countdown" => card.remainingSeconds \in 0..30

\* No two rows share an (issuer, account_name) pair.
Unique(rows) ==
    \A a, b \in rows : (a.issuer = b.issuer /\ a.account_name = b.account_name) => a = b

\* The rows holding the pair.
RowsOf(rows, label) == {a \in rows : a.issuer = label[1] /\ a.account_name = label[2]}

\* C17: after any sequence of add_account, update_account, delete_account
\* and import_backup, no two rows share an (issuer, account_name) pair; an
\* add_account with a pair that already exists fails, with ConflictError
\* unless storage fails first, and leaves the table as it is, with exactly one
\* row for the pair.
C17_PairsUnique ==
    /\ Unique(store)
    /\ \A l \in Labels, x \in Secrets :
          RowsOf(store, l) # {} =>
              /\ \E o \in add_account([label |-> l, secret |-> x]) : o.res.err = "ConflictError"
              /\ \A o \in add_account([label |-> l, secret |-> x]) :
                    /\ ~o.res.ok /\ o.res.err \in {"ConflictError", "IOError"}
                    /\ o.vault = Vault
                    /\ Cardinality(RowsOf(o.vault.store, l)) = 1

\* C17 witness: an account was added, exported, deleted and added again (by
\* add_account or import_backup); a second add_account of its pair is
\* refused.
C17_Witness ==
    /\ \E a \in store : a.id = 2 /\ <<a.issuer, a.account_name>> = <<GitHub, dev>>
    /\ Cardinality(store) = 1
    /\ disk.exists /\ Len(disk.doc) = 1 /\ disk.doc[1].account_name = dev

\* update_account's result for the row a of the table.
Updated(rows, id, label) ==
    {IF a.id = id THEN [a EXCEPT !.issuer = label[1], !.account_name = label[2]] ELSE a :
        a \in rows}

\* C19: update_account(id, issuer, account_name) changes only the issuer
\* and account_name of the row with that id: its encrypted_secret and
\* secret_nonce and every other row stay as they are; it fails when the id
\* is absent or the pair belongs to a different row, and a failed call
\* changes nothing.
C19_UpdateOnlyRenames ==
    \A id \in 1..(MaxAccounts + 1), l \in Labels :
        LET absent == ~\E a \in store : a.id = id
            taken == \E a \in store : a.id # id /\ <<a.issuer, a.account_name>> = l
        IN \A o \in update_account([id |-> id, label |-> l]) :
              /\ (absent \/ taken) => ~o.res.ok
              /\ absent => o.res.err \in {"NotFoundError", "IOError"}
              /\ (~absent /\ taken) => o.res.err \in {"ConflictError", "IOError"}
              /\ ~o.res.ok => o.vault = Vault
              /\ o.res.ok => o.vault = [Vault EXCEPT !.store = Updated(store, id, l)]

\* C19 witness: the first account was exported as "ops" and has been
\* renamed to "dev"; a second account holds "ops", so renaming back
\* collides.
C19_Witness ==
    /\ \E a \in store : a.id = 1 /\ a.account_name = dev
    /\ \E a \in store : a.id = 2 /\ a.account_name = ops
    /\ disk.exists /\ Len(disk.doc) = 1 /\ disk.doc[1].account_name = ops

\* The commands that write the accounts table, and how many calls of them
\* the backend has received and not executed.
TableWrites == {"add_account", "update_account", "delete_account", "import_backup"}

PendingWrites(s) ==
    Cardinality({i \in 1..Len(s) : s[i].st = "sent" /\ s[i].cmd \in TableWrites})

\* A step that changes the accounts table is the whole effect of one
\* pending call on the table as it was, and that call is no longer pending.
OneCallAtATime ==
    store' # store =>
        /\ PendingWrites(inflight') = PendingWrites(inflight) - 1
        /\ \E i \in 1..Len(inflight) :
              /\ inflight[i].st = "sent" /\ inflight[i].cmd \in TableWrites
              /\ \E o \in Outcomes(inflight[i]) :
                    o.res.ok /\ o.vault.store = store' /\ o.vault.nextId = nextId'

\* C18: when add_account, update_account, delete_account and import_backup
\* calls of the UI overlap, the table changes one whole call at a time, so
\* its contents are those of a serial order of the calls, and no two rows
\* share an (issuer, account_name) pair in any intermediate state.
C18_WritesSerialized == [](Unique(store)) /\ [][OneCallAtATime]_vars

\* C18 witness: an update_account has been executed and is not yet
\* answered while an add_account is still to be executed, with two accounts
\* in the table.
C18_Witness ==
    /\ \E i, j \in 1..Len(inflight) :
          /\ inflight[i].cmd = "update_account" /\ inflight[i].st = "done"
          /\ inflight[j].cmd = "add_account" /\ inflight[j].st = "sent"
    /\ Cardinality(store) = 2

\* C20: while the settings modal is open and no has_pin, set_pin or
\* remove_pin call is in flight, its hasPin flag is true iff a PinVerifier
\* is persisted, also after a has_pin call that failed.
C20_HasPinIffVerifier ==
    (isPinSettingsOpen /\ Invoked({"has_pin", "set_pin", "remove_pin"}) = {}) =>
        (hasPin <=> verifier.set)

\* A step in which handleCaptureCancelled resumes after restoreWindow().
CancelRestored == windowRestored /\ form.awaiting = "handleCaptureCancelled"

\* The modal's three fields.
Fields(f) == <<f.issuer, f.accountName, f.secretKey>>

\* C21: cancelling the manual QR region selection (Escape on the overlay)
\* invokes no vault command, removes the overlay, takes the window out of
\* fullscreen and always-on-top and gives it back the decoration and the
\* placement it had before the scan, shows the add-account modal again with
\* its fields unchanged, and leaves isScanning false.
C21_CancelRestores ==
    [][(CaptureEscape => (inflight' = inflight /\ ~form'.showScreenCapture
                          /\ Fields(form') = Fields(form)))
       /\ (CancelRestored =>
              /\ inflight' = inflight
              /\ ~form'.showScreenCapture /\ ~form'.isScanning
              /\ isAddModalOpen'
              /\ Fields(form') = Fields(form)
              /\ ~win'.fullscreen /\ ~win'.alwaysOnTop
              /\ win'.decorations = form.before.decorations
              /\ win'.position = form.before.position)]_vars

\* Request i is answered and nothing is invoked.
NothingInvoked(i) == inflight' = RemoveAt(inflight, i)

\* C22: a failed QR decode or otpauth parse leads to a manual fallback.
\* When decoding or parsing of the whole screenshot fails, the overlay for
\* manual region selection is shown; when decoding or parsing of the
\* selected region fails, the add-account modal is shown again with an
\* error message; in both cases nothing is invoked (no add_account) and
\* the fields are left as they are.
C22_DecodeFailureFallsBack ==
    [][\A i \in 1..Len(inflight) :
          /\ \A o \in Answers(i, "handleQrScan.decode") :
                (~o.res.ok /\ QrScanDecodedAnswer(i, o)) =>
                    /\ form'.showScreenCapture /\ win'.visible
                    /\ NothingInvoked(i) /\ Fields(form') = Fields(form)
          /\ \A o \in Answers(i, "handleQrScan.parse") :
                (~o.res.ok /\ QrScanParsedAnswer(i, o)) =>
                    /\ form'.showScreenCapture /\ win'.visible
                    /\ NothingInvoked(i) /\ Fields(form') = Fields(form)
          /\ \A o \in Answers(i, "handleCaptured.decode") :
                (~o.res.ok /\ CapturedDecodedAnswer(i, o)) =>
                    /\ isAddModalOpen' /\ form'.errorMessage # NoError
                    /\ NothingInvoked(i) /\ Fields(form') = Fields(form)
          /\ \A o \in Answers(i, "handleCaptured.parse") :
                (~o.res.ok /\ CapturedParsedAnswer(i, o)) =>
                    /\ isAddModalOpen' /\ form'.errorMessage # NoError
                    /\ NothingInvoked(i) /\ Fields(form') = Fields(form)]_vars

\* C22 witness: automatic detection failed, the region the user selected
\* held a URI that did not parse, and the modal is shown again with the
\* error and the issuer the user had typed.
C22_Witness ==
    /\ isAddModalOpen /\ form.errorMessage = "ParseError"
    /\ form.awaiting = "handleCaptured" /\ win.fullscreen
    /\ form.issuer = <<" ", "G", "H">>

\* A step that invokes add_account, and the argument it passes.
AddSent ==
    /\ Len(inflight') = Len(inflight) + 1
    /\ inflight'[Len(inflight')].cmd = "add_account"

SentArg == inflight'[Len(inflight')].arg

\* The text has no whitespace at either end.
IsTrimmed(s) == s = <<>> \/ (s[1] \notin Whitespace /\ s[Len(s)] \notin Whitespace)

\* The letters of LowerCase.
LowerLetters == {LowerCase[j] : j \in 1..Len(LowerCase)}

\* C23: the secret passed to add_account is the secret typed into the
\* form with every whitespace character removed and every letter
\* upper-cased: it holds no whitespace and no lower-case letter, cleaning
\* it again changes nothing, and issuer and account name are passed
\* trimmed.
C23_SecretIsNormalised ==
    [][AddSent =>
          /\ SentArg.secret =
                toUpperCase(SelectSeq(form.secretKey, LAMBDA ch : ch \notin Whitespace))
          /\ \A j \in 1..Len(SentArg.secret) :
                SentArg.secret[j] \notin Whitespace \cup LowerLetters
          /\ CleanSecret(SentArg.secret) = SentArg.secret
          /\ SentArg.label = <<trim(form.issuer), trim(form.accountName)>>
          /\ IsTrimmed(SentArg.label[1]) /\ IsTrimmed(SentArg.label[2])]_vars

\* C23 witness: "jb sW" was typed as the secret and " GH" as the issuer;
\* add_account is in flight with JBSW and GH.
C23_Witness ==
    /\ form.secretKey = <<"j", "b", " ", "s", "W">> /\ form.issuer = <<" ", "G", "H">>
    /\ \E i \in Invoked({"add_account"}) :
          inflight[i].arg.secret = Jbsw /\ inflight[i].arg.label[1] = GitHub

\* The codes get_current_otp has been able to return for the card's
\* account up to now.
CodesUpTo(t) == UNION {{x.code : x \in CodesAt(u)} : u \in 0..t}

\* C24: when get_current_otp fails, the card shows the error code and
\* nothing else; a click on the code copies nothing while the card shows
\* the placeholder or the error code; so the clipboard only ever holds a
\* code that a successful get_current_otp returned.
C24_ClipboardHoldsCodesOnly ==
    /\ [](clipboard = <<>> \/ clipboard \in CodesUpTo(now))
    /\ [][/\ \A i \in 1..Len(inflight) : \A o \in Answers(i, "card.fetchOtp") :
                (~o.res.ok /\ CardFetchedAnswer(i, o)) => card'.currentCode = ErrorCode
          /\ (copyToClipboard /\ card.currentCode \in {NoCode, ErrorCode}) =>
                clipboard' = clipboard]_vars

\* C24 witness: a code was copied, and the card now shows the error code
\* of a later request that failed.
C24_Witness ==
    /\ card.currentCode = ErrorCode /\ card.lastTimeStep = 1
    /\ clipboard \in {x.code : x \in CodesAt(0)}

\* What a card shows and runs: its code, its remaining seconds, its last
\* time step and its interval (set, and with a callback waiting).
CardView(c) ==
    <<c.currentCode, c.remainingSeconds, c.lastTimeStep, c.mounted, c.due>>

\* The list reloads and the card of account id, and no other, leaves it.
CardDestroyed(id) ==
    /\ loadAccounts
    /\ cards[id].mounted
    /\ {a.id : a \in accounts} \ {a.id : a \in accounts'} = {id}

\* C25: the mount, a tick, a fetch, a response or the destruction of one
\* card leaves the code, remaining seconds, last time step and interval
\* of every other card unchanged.
C25_CardsAreIndependent ==
    [][\A id \in 1..MaxAccounts :
          (ListMount(id) \/ ListTick(id) \/ ListFetched(id) \/ CardDestroyed(id)) =>
              \A other \in 1..MaxAccounts \ {id} :
                  CardView(cards'[other]) = CardView(cards[other])]_vars

\* C25 witness: the first card has been destroyed while the second one,
\* mounted before, shows the code of the new time step.
C25_Witness ==
    /\ ~cards[1].mounted /\ accounts = {a \in store : a.id = 2} /\ Cardinality(store) = 1
    /\ cards[2].mounted /\ cards[2].lastTimeStep = TickStep(MaxListNow)
    /\ cards[2].currentCode \notin {NoCode, ErrorCode}

\* The delete_account and update_account requests of cards that the
\* backend has not executed yet.
CardWrites ==
    {i \in 1..Len(inflight) :
        inflight[i].k \in {"confirmDelete", "saveEdit"} /\ inflight[i].st = "sent"}

\* The id a card's request names.
WriteId(r) == IF r.cmd = "delete_account" THEN r.arg ELSE r.arg.id

\* The rows an outcome removes or changes, and the rows it adds or leaves
\* changed.
RowsTouched(o) == (store \ o.vault.store) \cup (o.vault.store \ store)

\* C26: ids are assigned in strictly increasing order and never reused,
\* and whatever a card's delete_account or update_account does when the
\* backend executes it, it does to the account the card displays and to
\* no other, also when that account has been deleted since.
C26_IdsNeverReused ==
    /\ [](/\ \A a \in store : a.id < nextId
          /\ \A i \in CardWrites : \A o \in Outcomes(inflight[i]) :
                \A a \in RowsTouched(o) : a.secret_nonce = inflight[i].n)
    /\ [][/\ nextId' >= nextId
          /\ \A a \in store' :
                a.id \notin {b.id : b \in store} => a.id >= nextId /\ a.id < nextId']_vars

\* C26 witness: a card's request is still to be executed, its account
\* has been deleted, and an account added since is in the table.
C26_Witness ==
    \E i \in CardWrites :
        /\ \A a \in store : a.secret_nonce # inflight[i].n
        /\ \E a \in store : a.id > WriteId(inflight[i])

\* C27: every add_account the add-account modal sends carries a non-empty
\* issuer, a non-empty account name and a non-empty secret, as sent.
C27_SentFieldsNonEmpty ==
    [][AddSent =>
          /\ SentArg.label[1] # <<>>
          /\ SentArg.label[2] # <<>>
          /\ SentArg.secret # <<>>]_vars

\* The add_account calls of the modal that are in flight.
AddCalls == {i \in 1..Len(inflight) : inflight[i].k = "AddAccount.handleSubmit"}

\* C28: when add_account fails, the modal is not closed, issuer, account
\* name and secret are unchanged, an error message is set, no accountAdded
\* is dispatched and isSubmitting is false; when it succeeds, the fields
\* are cleared, accountAdded is dispatched once (the page calls
\* loadAccounts once) and the modal closes; isSubmitting is true exactly
\* while a call is in flight, and at most one is.
C28_SubmitOutcome ==
    /\ []((form.isSubmitting <=> AddCalls # {}) /\ Cardinality(AddCalls) <= 1)
    /\ [][\A i \in 1..Len(inflight) : \A o \in Answers(i, "AddAccount.handleSubmit") :
             AddAccountSubmittedAnswer(i, o) =>
                 /\ ~form'.isSubmitting
                 /\ IF o.res.ok
                    THEN /\ Fields(form') = <<<<>>, <<>>, <<>>>>
                         /\ ~isAddModalOpen'
                         /\ Cardinality(Invoked({"get_accounts"})') =
                                Cardinality(Invoked({"get_accounts"})) + 1
                         /\ Len(inflight') = Len(inflight)
                    ELSE /\ Fields(form') = Fields(form)
                         /\ isAddModalOpen' = isAddModalOpen
                         /\ form'.errorMessage # NoError
                         /\ inflight' = RemoveAt(inflight, i)
                         /\ accounts' = accounts]_vars

\* C28 witness: the modal after add_account refused a duplicate pair: it
\* is open, shows the error and still holds what was typed.
C28_Witness ==
    /\ isAddModalOpen /\ ~form.isSubmitting /\ AddCalls = {}
    /\ form.errorMessage = "ConflictError"
    /\ Fields(form) = <<<<" ", "G", "H">>, <<"d", " ">>, <<"j", "b", " ", "s", "W">>>>

\* The step dispatches 'setup': the page's handlePinSetup invokes set_pin.
SetupSent ==
    /\ Len(inflight') = Len(inflight) + 1
    /\ inflight'[Len(inflight')].cmd = "set_pin"

\* C29: in setup mode the PinPad keeps a first entry only if it is four
\* digits; handleSubmit dispatches 'setup' only for a second entry of
\* four digits equal to the first one kept, with that PIN; for a second
\* entry of four digits that differs it dispatches nothing and the pad is
\* back at the first entry with pin and confirmPin empty.
C29_SetupNeedsEqualEntries ==
    /\ [](\A id \in {"page", "modal"} :
             pads[id].isConfirming =>
                 pads[id].mode = "setup" /\ IsValidPin(pads[id].confirmPin))
    /\ [][(SubmitTimer("page") /\ pads["page"].mode = "setup") =>
             LET p == pads["page"]
                 q == pads'["page"]
             IN /\ SetupSent =>
                       /\ p.isConfirming /\ IsValidPin(p.pin) /\ p.pin = p.confirmPin
                       /\ inflight'[Len(inflight')].arg = p.confirmPin
                /\ (p.isConfirming /\ IsValidPin(p.pin) /\ p.pin # p.confirmPin) =>
                       /\ inflight' = inflight
                       /\ ~q.isConfirming /\ q.pin = <<>> /\ q.confirmPin = <<>>
                /\ (~p.isConfirming /\ q.isConfirming) =>
                       /\ IsValidPin(p.pin) /\ q.confirmPin = p.pin /\ q.pin = <<>>
                       /\ inflight' = inflight]_vars

\* C29 witness: the setup pad after a second entry that differed from the
\* first one.
C29_Witness ==
    /\ pads["page"].mounted /\ pads["page"].mode = "setup"
    /\ pads["page"].errorMsg = MsgConfirmMismatch
    /\ ~pads["page"].isConfirming /\ pads["page"].pin = <<>> /\ pads["page"].confirmPin = <<>>

\* C30: no delayed-submit timer of the page's PinPad fires on an entry
\* that is no longer complete: handleSubmit always finds four digits.
C30_TimerFindsCompleteEntry ==
    [][SubmitTimer("page") => Len(pads["page"].pin) = MAX_PIN_LENGTH]_vars

\* The window after a scan: shown, neither fullscreen nor always on top,
\* and no scan is running.
ScanEnded ==
    /\ win.visible /\ ~win.fullscreen /\ ~win.alwaysOnTop
    /\ ~form.isScanning

\* C31: every QR scan started from the add-account modal eventually ends
\* with the window visible, not fullscreen and not always on top, and
\* isScanning false (the claim requires the modal to be shown as well).
C31_ScanEventuallyEnds == form.isScanning ~> ScanEnded

\* The time step a code was computed for.
CodeStep(code) == code[3]

\* C32: once no get_current_otp request of the card is in flight, the
\* code the card displays is the response to the request issued for the
\* most recent time step: it is not a code of an earlier step than the one
\* the card last sent a request for.
C32_NewestResponseShown ==
    (card.mounted /\ CardFetches = {} /\ card.currentCode \notin {NoCode, ErrorCode}) =>
        CodeStep(card.currentCode) >= card.lastTimeStep

\* C33: when the last request in flight is a get_accounts and it returns
\* the list, the account list of the page equals the contents of the
\* store, whatever order the responses of overlapping get_accounts
\* requests arrive in.
C33_ListEqualsStore ==
    [][\A i \in 1..Len(inflight) : \A o \in Answers(i, "loadAccounts") :
          (o.res.ok /\ LoadAccountsAnswer(i, o) /\ inflight' = <<>>) =>
              accounts' = store']_vars

\* C34: the overlay sends a rectangle for decoding only on a mouse-up that
\* ends a drag whose selection is at least 30 wide and 30 high; x and y are
\* the top-left corner of the drag whatever its direction, w and h are not
\* negative, and each value is the selection's multiplied by the device
\* pixel ratio and rounded; without a mouse-down before them, a mouse-move
\* and a mouse-up change nothing.
Dispatched ==
    /\ Len(inflight') = Len(inflight) + 1
    /\ inflight'[Len(inflight')].cmd = "decode_screenshot_region"

Nearest(sent, v, q) == -2 < 4 * sent - v * q /\ 4 * sent - v * q <= 2

TopLeft(from, to) == IF from <= to THEN from ELSE to

Extent(from, to) == IF from <= to THEN to - from ELSE from - to

SentRectangle(c, d) ==
    /\ Nearest(d.x, TopLeft(c.startX, c.currentX), c.dpr)
    /\ Nearest(d.y, TopLeft(c.startY, c.currentY), c.dpr)
    /\ Nearest(d.w, Extent(c.startX, c.currentX), c.dpr)
    /\ Nearest(d.h, Extent(c.startY, c.currentY), c.dpr)
    /\ d.w >= 0 /\ d.h >= 0

C34_CapturedRectangle ==
    [][/\ Dispatched =>
            /\ capture.isDrawing
            /\ Extent(capture.startX, capture.currentX) >= 30
            /\ Extent(capture.startY, capture.currentY) >= 30
            /\ SentRectangle(capture, inflight'[Len(inflight')].arg)
       /\ (/\ ~capture.isDrawing
           /\ \/ SelectionMouseUp
              \/ \E x, y \in Coordinates : handleMouseMove(x, y))
          => UNCHANGED vars]_vars

C34_Witness ==
    /\ Len(inflight) > 0
    /\ inflight[Len(inflight)].cmd = "decode_screenshot_region"
    /\ inflight[Len(inflight)].arg.x = 13
    /\ inflight[Len(inflight)].arg.w = 50
    /\ inflight[Len(inflight)].arg.h = 63

\* C35: delete_account is sent for an account only by a confirmation made
\* while its card is in confirm mode, which only a delete request turns on
\* and which sends nothing itself; cancelling, and the expiry of confirm
\* mode, send nothing and leave the account in the store.
DeleteSent ==
    /\ Len(inflight') = Len(inflight) + 1
    /\ inflight'[Len(inflight')].cmd = "delete_account"

C35_DeleteNeedsConfirmation ==
    [][/\ DeleteSent =>
            /\ confirm.confirmingDelete
            /\ \E a \in accounts : inflight'[Len(inflight')].arg = a.id
       /\ (~confirm.confirmingDelete /\ confirm'.confirmingDelete) =>
            /\ \E a \in accounts : requestDelete(a)
            /\ inflight' = inflight
       /\ (confirmExpired \/ \E a \in accounts : cancelDelete(a)) =>
            /\ inflight' = inflight
            /\ store' = store]_vars

C35_Witness ==
    /\ store = {}
    /\ accounts = {}
    /\ confirm.timers # {}

\* C36: confirm mode is ended by a timer only when 3 seconds have passed
\* since the latest delete request, whose timer is the last one due.
C36_ConfirmModeLasts ==
    [][(/\ confirm.confirmingDelete
        /\ ~confirm'.confirmingDelete
        /\ confirm'.timers # confirm.timers)
       => \A t \in confirm.timers : t <= now]_vars

\* C37: a card destroyed because its account has left the list has no
\* interval any more; while the account is not in the list its card runs
\* no tick and sends no get_current_otp request.
Listed(id) == \E a \in accounts : a.id = id

FetchSentBy(id) ==
    /\ Len(inflight') = Len(inflight) + 1
    /\ inflight'[Len(inflight')].cmd = "get_current_otp"
    /\ inflight'[Len(inflight')].n = id

C37_DestroyedCardIsSilent ==
    [][\A id \in 1..MaxAccounts :
          /\ ~Listed(id)' => (~cards'[id].mounted /\ ~cards'[id].due)
          /\ ~Listed(id) =>
                /\ ~FetchSentBy(id)
                /\ ~ListTick(id)
                /\ cards'[id] = cards[id]]_vars

\* C37 witness: the second account has been deleted and its card destroyed
\* while a request of that card was in flight; the first card is shown.
C37_Witness ==
    /\ ~Listed(2) /\ Listed(1) /\ cards[1].mounted
    /\ \A a \in store : a.id # 2
    /\ \E i \in 1..Len(inflight) :
          inflight[i].cmd = "get_current_otp" /\ inflight[i].n = 2

\* C38: run_install is sent only with an install path that is not empty
\* and a download URL that is not empty and is the one a successful
\* check_latest_version has returned; after a failed version check it is
\* never sent.
RunSent == Len(installer'.running) = Len(installer.running) + 1

C38_InstallNeedsPathAndUrl ==
    [][RunSent =>
          LET call == installer'.running[Len(installer'.running)]
          IN /\ call.installPath # ""
             /\ call.downloadUrl # ""
             /\ installer.info.ok
             /\ call.downloadUrl = installer.info.download_url]_vars

\* C38 witness: run_install is in flight with the folder the user has
\* chosen and the URL of the version check.
C38_Witness ==
    /\ Len(installer.running) = 1
    /\ installer.running[1] = [installPath |-> ChosenPath, downloadUrl |-> Url]
    /\ installer.info.ok

\* C39: at most one run_install is in flight; while one is, the install
\* path does not change; after a successful install none is sent; a
\* failed install leaves the button and the folder selection enabled.
C39_InstallRunsAlone ==
    [][/\ Len(installer'.running) <= 1
       /\ (installer.running # <<>> /\ installer'.running # <<>>) =>
              installer'.selectedPath = installer.selectedPath
       /\ installer.closeListener => ~RunSent
       /\ (\E i \in 1..MaxInstalls : installed(i, FALSE)) =>
              (~installer'.disabled /\ installer'.pointerEvents = "auto")]_vars

====
